---- MODULE Spec2Model ----
(***************************************************************************)
(* A model of gitrevset: the revset evaluator (src/src/eval.rs), the AST   *)
(* substitution (src/src/ast.rs) and the repository it is evaluated        *)
(* against (src/src/repo.rs, driven as src/src/testrepo.rs drives it).     *)
(*                                                                         *)
(* Strings are TLA+ strings; a vertex is the index of a commit in the      *)
(* object store and Hex(v) is its hexadecimal identity.  A Set of the dag  *)
(* crate is a set of vertices; its iteration order is the index's order,   *)
(* most recent vertex first.                                               *)
(***************************************************************************)
EXTENDS Integers, Sequences, FiniteSets, TLC

VARIABLES
    commits,   \* the object store: commits[v] = [parents, name, time, tree, msg]
    refs,      \* the references of the git repository: full name -> vertex
    reflog,    \* the rewrite entries of the reflogs: reference -> <<[old, new]>>
    dag_refs,  \* the references the handle's index snapshotted when it was opened
    cached_sets, \* the handle's cache of named sets: name -> Set
    calls,     \* the cached_set calls in progress on the handle, per thread
    cells,     \* the handle's two OnceCells: mutation graph and alias context
    cli,       \* the run of the command-line tool
    query,     \* the expression last evaluated (NoExpr: none since the last reload)
    context,   \* the Context it was evaluated under
    result     \* the Result<Set> of that evaluation

vars == <<commits, refs, reflog, dag_refs, cached_sets, calls, cells, cli, query, context, result>>

\* The number of commits the object store may hold.
MaxCommits == 4

-----------------------------------------------------------------------------
(* Strings *)

StrTail(s) == SubSeq(s, 2, Len(s))

StrDrop(s, k) == SubSeq(s, k + 1, Len(s))

\* str::starts_with
StartsWith(s, p) == Len(p) <= Len(s) /\ SubSeq(s, 1, Len(p)) = p

\* str::contains
StrContains(s, c) ==
    \E i \in 1..(Len(s) + 1) :
        i + Len(c) - 1 <= Len(s) /\ SubSeq(s, i, i + Len(c) - 1) = c

HexDigits == {"0", "1", "2", "3", "4", "5", "6", "7", "8", "9",
              "a", "b", "c", "d", "e", "f"}

UpperHex == {"A", "B", "C", "D", "E", "F"}

LowerOf(ch) ==
    CASE ch = "A" -> "a" [] ch = "B" -> "b" [] ch = "C" -> "c"
      [] ch = "D" -> "d" [] ch = "E" -> "e" [] ch = "F" -> "f"

\* normalize_hex: the lower-case hex digits of s, or NotHex (None) when s
\* holds any other character.
NotHex == "?"

RECURSIVE normalize_hex(_)
normalize_hex(s) ==
    IF s = "" THEN ""
    ELSE LET b == Head(s)
             rest == normalize_hex(StrTail(s))
         IN  IF rest = NotHex THEN NotHex
             ELSE IF b \in HexDigits THEN b \o rest
             ELSE IF b \in UpperHex THEN LowerOf(b) \o rest
             ELSE NotHex

\* The globset matcher of a pattern made of literal characters and `*`
\* (`*` spans any characters, `/` included: literal_separator is off).
RECURSIVE GlobMatch(_, _)
GlobMatch(pat, s) ==
    IF pat = "" THEN s = ""
    ELSE IF Head(pat) = "*"
         THEN \E k \in 0..Len(s) : GlobMatch(StrTail(pat), StrDrop(s, k))
         ELSE s # "" /\ Head(s) = Head(pat) /\ GlobMatch(StrTail(pat), StrTail(s))

-----------------------------------------------------------------------------
(* The commit graph index (the dag crate, as eval.rs uses it) *)

\* The hexadecimal identity of the v-th commit of the object store.
HexTable == <<"ab10", "ab21", "ab22", "ab43", "ab54", "ab65", "ab76">>

Hex(v) == HexTable[v]

\* dag.all(): every vertex the index holds.  Every commit is referenced when
\* it is created and the index is persistent, so it holds every commit.
DagAll == 1..Len(commits)

ParentsOf(v) == commits[v].parents

DagParents(S) == UNION {ParentsOf(v) : v \in S}

RECURSIVE AncestorsOf(_)
AncestorsOf(v) == {v} \cup UNION {AncestorsOf(p) : p \in ParentsOf(v)}

DagAncestors(S) == UNION {AncestorsOf(v) : v \in S}

DagDescendants(S) == {d \in DagAll : AncestorsOf(d) \cap S # {}}

DagChildren(S) == {c \in DagAll : ParentsOf(c) \cap S # {}}

DagRange(roots, heads) == DagDescendants(roots) \cap DagAncestors(heads)

DagOnly(reachable, unreachable) == DagAncestors(reachable) \ DagAncestors(unreachable)

DagHeads(S) == S \ DagParents(S)

DagRoots(S) == S \ DagChildren(S)

\* gca_all: the heads of the ancestors common to every vertex of S.
DagGcaAll(S) ==
    IF S = {} THEN {}
    ELSE LET common == {a \in DagAll : \A v \in S : a \in AncestorsOf(v)}
         IN  DagHeads(common)

\* Set::first / Set::last in the index's order (most recent vertex first).
SetFirst(S) == CHOOSE v \in S : \A w \in S : w <= v

SetLast(S) == CHOOSE v \in S : \A w \in S : v <= w

\* dag.git_references(): the references snapshotted when the Repo is opened.
git_references == dag_refs

RefTargets == {git_references[r] : r \in DOMAIN git_references}

\* dag.git_heads(): the heads of the referenced commits.
git_heads == DagHeads(DagAncestors(RefTargets))

\* vertexes_by_hex_prefix(prefix, limit): at most `limit` of the vertices
\* whose hex identity starts with prefix, in the index's order.
RECURSIVE TakeLowest(_, _)
TakeLowest(S, limit) ==
    IF S = {} \/ limit = 0 THEN {}
    ELSE LET v == SetLast(S) IN {v} \cup TakeLowest(S \ {v}, limit - 1)

vertexes_by_hex_prefix(prefix, limit) ==
    TakeLowest({v \in DagAll : StartsWith(Hex(v), prefix)}, limit)

-----------------------------------------------------------------------------
(* Expr (ast.rs) and Result (error.rs) *)

Name(s) == [t |-> "Name", s |-> s, args |-> <<>>]

Fn(f, a) == [t |-> "Fn", s |-> f, args |-> a]

NoExpr == [t |-> "None", s |-> "", args |-> <<>>]

Ok(S) == [kind |-> "Ok", set |-> S, has |-> S, str |-> "", n |-> 0, k |-> 0]

UnresolvedName(s) == [kind |-> "UnresolvedName", set |-> {}, has |-> {}, str |-> s, n |-> 0, k |-> 0]

AmbiguousPrefix(vs) == [kind |-> "AmbiguousPrefix", set |-> vs, has |-> {}, str |-> "", n |-> 0, k |-> 0]

MismatchedArguments(f, n, k) ==
    [kind |-> "MismatchedArguments", set |-> {}, has |-> {}, str |-> f, n |-> n, k |-> k]

ExpectString(s) == [kind |-> "ExpectString", set |-> {}, has |-> {}, str |-> s, n |-> 0, k |-> 0]

ParseError(s) == [kind |-> "ParseError", set |-> {}, has |-> {}, str |-> s, n |-> 0, k |-> 0]

Git2Error == [kind |-> "Git2", set |-> {}, has |-> {}, str |-> "", n |-> 0, k |-> 0]

DagError == [kind |-> "Dag", set |-> {}, has |-> {}, str |-> "", n |-> 0, k |-> 0]

NoResult == [kind |-> "None", set |-> {}, has |-> {}, str |-> "", n |-> 0, k |-> 0]

IsOk(r) == r.kind = "Ok"

\* The evaluation does not return: the alias closures nested on the call
\* stack exhaust it and the process is aborted.
StackOverflow == [kind |-> "StackOverflow", set |-> {}, has |-> {}, str |-> "", n |-> 0, k |-> 0]

\* The alias closures the call stack has room for; the aliases that end need
\* fewer.
StackLimit == 4

EmptyMap == [x \in {} |-> {}]

\* Context::default().  `depth` is not a field of the context: it is the
\* number of alias closures on the call stack of the evaluation that was
\* given the context.
DefaultContext == [names |-> EmptyMap, fns |-> EmptyMap, depth |-> 0]

-----------------------------------------------------------------------------
(* ast.rs *)

\* The seq of every element of args but the first.
Rest(args) == SubSeq(args, 2, Len(args))

\* impl fmt::Debug for Expr
RECURSIVE FmtArgs(_)
RECURSIVE Fmt(_)
FmtArgs(args) ==
    IF Len(args) = 1 THEN Fmt(args[1])
    ELSE Fmt(args[1]) \o ", " \o FmtArgs(Rest(args))

Fmt(expr) ==
    IF expr.t = "Name" THEN expr.s
    ELSE IF Len(expr.args) = 0 THEN expr.s \o "()"
    ELSE expr.s \o "(" \o FmtArgs(expr.args) \o ")"

\* replace, were the template of a nested apply call substituted too.
RECURSIVE replace_into_template(_, _, _)
replace_into_template(expr, from, to) ==
    IF expr.t = "Name"
    THEN IF expr.s = from THEN to ELSE expr
    ELSE Fn(expr.s, [i \in 1..Len(expr.args) |->
                        replace_into_template(expr.args[i], from, to)])

\* Expr::replace: every Name(from) becomes a clone of `to`; the first
\* argument of an apply call with more than one argument is held unchanged.
RECURSIVE replace(_, _, _)
replace(expr, from, to) ==
    IF expr.t = "Name"
    THEN IF expr.s = from THEN to ELSE expr
    ELSE IF expr.s = "apply" /\ Len(expr.args) > 1
         THEN Fn(expr.s, [i \in 1..Len(expr.args) |->
                    IF i = 1 THEN expr.args[1] ELSE replace(expr.args[i], from, to)])
         ELSE Fn(expr.s, [i \in 1..Len(expr.args) |-> replace(expr.args[i], from, to)])

\* format!("${}", i + 1) for the i-th argument, counted from 1 here.
Placeholder(i) == "$" \o ToString(i)

\* for (i, arg) in args.iter().enumerate() { ast.replace("$i+1", arg) }
RECURSIVE ReplaceArgs(_, _, _)
ReplaceArgs(ast, args, i) ==
    IF i > Len(args) THEN ast
    ELSE ReplaceArgs(replace(ast, Placeholder(i), args[i]), args, i + 1)

-----------------------------------------------------------------------------
(* repo.rs *)

\* Repo::to_set: the vertices as a Set sorted in the index's order.
to_set(vs) == Ok(vs)

\* Repo::cached_set, run without interruption: the cached set of the name,
\* or what the producer returns.
cached_set(name, produced) ==
    IF name \in DOMAIN cached_sets THEN Ok(cached_sets[name]) ELSE produced

\* The checkout: HEAD is the symbolic reference git init makes, to
\* refs/heads/master; head()?.peel_to_commit()? fails while it is unborn.
HeadRef == "refs/heads/master"

-----------------------------------------------------------------------------
(* eval.rs *)

RECURSIVE eval(_, _)

\* ensure_arg_count
ensure_arg_count(func_name, args, n, ctx) ==
    IF Len(args) # n THEN MismatchedArguments(func_name, n, Len(args)) ELSE Ok({})

resolve_set(expr, ctx) == eval(expr, ctx)

\* resolve_string: [r |-> Ok or the error, s |-> the string]
resolve_string(expr) ==
    IF expr.t = "Name" THEN [r |-> Ok({}), s |-> expr.s]
    ELSE [r |-> UnresolvedName(Fmt(expr)), s |-> ""]

resolve_single_set(func_name, args, ctx) ==
    LET c == ensure_arg_count(func_name, args, 1, ctx)
    IN  IF ~IsOk(c) THEN c ELSE eval(args[1], ctx)

\* resolve_double_sets: [r |-> Ok or the first error, a, b |-> the two sets]
resolve_double_sets(func_name, args, ctx) ==
    LET c == ensure_arg_count(func_name, args, 2, ctx)
    IN  IF ~IsOk(c) THEN [r |-> c, a |-> {}, b |-> {}]
        ELSE LET ra == eval(args[1], ctx)
             IN  IF ~IsOk(ra) THEN [r |-> ra, a |-> {}, b |-> {}]
                 ELSE LET rb == eval(args[2], ctx)
                      IN  IF ~IsOk(rb) THEN [r |-> rb, a |-> {}, b |-> {}]
                          ELSE [r |-> Ok({}), a |-> ra.set, b |-> rb.set]

parents(func_name, args, ctx) ==
    LET s == resolve_single_set(func_name, args, ctx)
    IN  IF ~IsOk(s) THEN s ELSE Ok(DagParents(s.set))

children(func_name, args, ctx) ==
    LET s == resolve_single_set(func_name, args, ctx)
    IN  IF ~IsOk(s) THEN s
        ELSE LET visible == DagAncestors(git_heads)
             IN  Ok(DagChildren(s.set) \cap visible)

ancestors(func_name, args, ctx) ==
    LET s == resolve_single_set(func_name, args, ctx)
    IN  IF ~IsOk(s) THEN s ELSE Ok(DagAncestors(s.set))

descendants(func_name, args, ctx) ==
    LET s == resolve_single_set(func_name, args, ctx)
    IN  IF ~IsOk(s) THEN s ELSE Ok(DagRange(s.set, git_heads) \cup s.set)

heads(func_name, args, ctx) ==
    LET s == resolve_single_set(func_name, args, ctx)
    IN  IF ~IsOk(s) THEN s ELSE Ok(DagHeads(s.set))

roots(func_name, args, ctx) ==
    LET s == resolve_single_set(func_name, args, ctx)
    IN  IF ~IsOk(s) THEN s ELSE Ok(DagRoots(s.set))

range(func_name, args, ctx) ==
    LET d == resolve_double_sets(func_name, args, ctx)
    IN  IF ~IsOk(d.r) THEN d.r ELSE Ok(DagRange(d.a, d.b))

only(func_name, args, ctx) ==
    LET d == resolve_double_sets(func_name, args, ctx)
    IN  IF ~IsOk(d.r) THEN d.r ELSE Ok(DagOnly(d.a, d.b))

\* The loop of gca: the union of the arguments' sets, or the first error.
RECURSIVE gca_loop(_, _, _, _)
gca_loop(args, i, set, ctx) ==
    IF i > Len(args) THEN Ok(set)
    ELSE LET subset == resolve_set(args[i], ctx)
         IN  IF ~IsOk(subset) THEN subset
             ELSE gca_loop(args, i + 1, set \cup subset.set, ctx)

gca(func_name, args, ctx) ==
    LET s == gca_loop(args, 1, {}, ctx)
    IN  IF ~IsOk(s) THEN s ELSE Ok(DagGcaAll(s.set))

intersection(func_name, args, ctx) ==
    LET d == resolve_double_sets(func_name, args, ctx)
    IN  IF ~IsOk(d.r) THEN d.r ELSE Ok(d.a \cap d.b)

union(func_name, args, ctx) ==
    LET d == resolve_double_sets(func_name, args, ctx)
    IN  IF ~IsOk(d.r) THEN d.r ELSE Ok(d.a \cup d.b)

difference(func_name, args, ctx) ==
    LET d == resolve_double_sets(func_name, args, ctx)
    IN  IF ~IsOk(d.r) THEN d.r ELSE Ok(d.a \ d.b)

negate(func_name, args, ctx) ==
    LET s == resolve_single_set(func_name, args, ctx)
    IN  IF ~IsOk(s) THEN s ELSE Ok(DagAll \ s.set)

\* The loop of first: the arguments in order, up to the first error or the
\* first non-empty set.
RECURSIVE first_loop(_, _, _)
first_loop(args, i, ctx) ==
    IF i > Len(args) THEN to_set({})
    ELSE LET subset == resolve_set(args[i], ctx)
         IN  IF ~IsOk(subset) THEN subset
             ELSE IF subset.set # {} THEN to_set({SetFirst(subset.set)})
             ELSE first_loop(args, i + 1, ctx)

\* first, were every argument evaluated before the first non-empty is chosen.
first_eager(func_name, args, ctx) ==
    LET all_args == gca_loop(args, 1, {}, ctx)
    IN  IF ~IsOk(all_args) THEN all_args ELSE first_loop(args, 1, ctx)

first(func_name, args, ctx) == first_loop(args, 1, ctx)

last(func_name, args, ctx) ==
    LET s == resolve_single_set(func_name, args, ctx)
    IN  IF ~IsOk(s) THEN s
        ELSE IF s.set # {} THEN to_set({SetLast(s.set)})
        ELSE to_set({})

head(func_name, args, ctx) ==
    LET c == ensure_arg_count(func_name, args, 0, ctx)
    IN  IF ~IsOk(c) THEN c ELSE Ok(git_heads)

all(func_name, args, ctx) ==
    LET c == ensure_arg_count(func_name, args, 0, ctx)
    IN  IF ~IsOk(c) THEN c
        ELSE cached_set("all",
                 LET hs == head("head", <<>>, ctx)
                 IN  IF ~IsOk(hs) THEN hs ELSE Ok(DagAncestors(hs.set)))

\* r#ref
ref(func_name, args, ctx) ==
    LET rs == git_references
    IN  IF Len(args) = 0 THEN to_set({rs[r] : r \in DOMAIN rs})
        ELSE
        LET c == ensure_arg_count(func_name, args, 1, ctx)
            n == resolve_string(args[1])
            name == n.s
            candidates == <<"refs/" \o name, "refs/heads/" \o name,
                            "refs/tags/" \o name, "refs/remotes/" \o name>>
            found == {i \in 1..4 : candidates[i] \in DOMAIN rs}
            firstFound == CHOOSE i \in found : \A j \in found : i <= j
        IN  IF ~IsOk(c) THEN c
            ELSE IF ~IsOk(n.r) THEN n.r
            ELSE IF func_name # "refglob" /\ found # {}
                 THEN to_set({rs[candidates[firstFound]]})
            ELSE IF func_name # "lookup" /\ StrContains(name, "*")
                 THEN to_set({rs[r] : r \in {k \in DOMAIN rs : GlobMatch("refs/" \o name, k)}})
            ELSE UnresolvedName(name)

\* The limit rev passes to vertexes_by_hex_prefix.
PrefixLimit == 3

\* rev, were an ambiguous prefix resolved to the first of its matches.
rev_first_match(func_name, args, ctx) ==
    LET c == ensure_arg_count(func_name, args, 1, ctx)
        n == resolve_string(args[1])
        name == n.s
        bin_hex == normalize_hex(name)
        matched == vertexes_by_hex_prefix(bin_hex, PrefixLimit)
    IN  IF ~IsOk(c) THEN c
        ELSE IF ~IsOk(n.r) THEN n.r
        ELSE IF name \in {".", "@", "HEAD"}
             THEN IF HeadRef \in DOMAIN refs THEN to_set({refs[HeadRef]}) ELSE Git2Error
        ELSE IF bin_hex # NotHex
             THEN IF Cardinality(matched) = 0 THEN UnresolvedName(name)
                  ELSE to_set({SetLast(matched)})
        ELSE UnresolvedName(name)

rev(func_name, args, ctx) ==
    LET c == ensure_arg_count(func_name, args, 1, ctx)
        n == resolve_string(args[1])
        name == n.s
        bin_hex == normalize_hex(name)
        matched == vertexes_by_hex_prefix(bin_hex, PrefixLimit)
    IN  IF ~IsOk(c) THEN c
        ELSE IF ~IsOk(n.r) THEN n.r
        ELSE IF name \in {".", "@", "HEAD"}
             THEN IF HeadRef \in DOMAIN refs THEN to_set({refs[HeadRef]}) ELSE Git2Error
        ELSE IF bin_hex # NotHex
             THEN IF Cardinality(matched) = 0 THEN UnresolvedName(name)
                  ELSE IF Cardinality(matched) = 1 THEN to_set(matched)
                  ELSE AmbiguousPrefix(matched)
        ELSE UnresolvedName(name)

\* lookup, were the commit hash tried before the references.
lookup_hash_first(name, ctx) ==
    IF name \in DOMAIN ctx.names THEN Ok(ctx.names[name])
    ELSE LET args == <<Name(name)>>
             byRev == rev("lookup", args, ctx)
         IN  IF IsOk(byRev) THEN byRev
             ELSE ref("lookup", args, ctx)

\* lookup, were the error of the reference lookup returned.
lookup_ref_only(name, ctx) ==
    IF name \in DOMAIN ctx.names THEN Ok(ctx.names[name])
    ELSE ref("lookup", <<Name(name)>>, ctx)

\* lookup: resolve a name.
lookup(name, ctx) ==
    IF name \in DOMAIN ctx.names THEN Ok(ctx.names[name])
    ELSE LET args == <<Name(name)>>
             byRef == ref("lookup", args, ctx)
         IN  IF IsOk(byRef) THEN byRef
             ELSE rev("lookup", args, ctx)

publichead(func_name, args, ctx) ==
    LET c == ensure_arg_count(func_name, args, 0, ctx)
    IN  IF ~IsOk(c) THEN c
        ELSE cached_set("publichead", ref("refglob", <<Name("remotes/**")>>, ctx))

drafthead(func_name, args, ctx) ==
    LET c == ensure_arg_count(func_name, args, 0, ctx)
    IN  IF ~IsOk(c) THEN c
        ELSE cached_set("drafthead",
                 LET h == head("head", <<>>, ctx)
                     p == publichead("publichead", args, ctx)
                 IN  IF ~IsOk(h) THEN h ELSE IF ~IsOk(p) THEN p
                     ELSE Ok(h.set \ p.set))

public(func_name, args, ctx) ==
    LET c == ensure_arg_count(func_name, args, 0, ctx)
    IN  IF ~IsOk(c) THEN c
        ELSE cached_set("public",
                 LET p == publichead("publichead", <<>>, ctx)
                 IN  IF ~IsOk(p) THEN p ELSE Ok(DagAncestors(p.set)))

\* draft, were public() not subtracted.
draft_with_public(func_name, args, ctx) ==
    LET c == ensure_arg_count(func_name, args, 0, ctx)
    IN  IF ~IsOk(c) THEN c
        ELSE LET h == head("drafthead", <<>>, ctx)
             IN  IF ~IsOk(h) THEN h ELSE Ok(DagAncestors(h.set))

draft(func_name, args, ctx) ==
    LET c == ensure_arg_count(func_name, args, 0, ctx)
    IN  IF ~IsOk(c) THEN c
        ELSE cached_set("draft",
                 LET h == head("drafthead", <<>>, ctx)
                     p == public("public", <<>>, ctx)
                 IN  IF ~IsOk(h) THEN h ELSE IF ~IsOk(p) THEN p
                     ELSE Ok(DagAncestors(h.set) \ p.set))

\* filter_set: the lazily evaluated Set whose iteration (`set`) gives the
\* vertices of all() whose commit satisfies func, and whose membership test
\* (`has`) is State::contains, which answers func for any commit of the
\* store; accepted holds the commits of the store that func accepts.
filter_set(accepted) ==
    LET a == all("all", <<>>, DefaultContext)
    IN  IF ~IsOk(a) THEN a
        ELSE [Ok({v \in a.set : v \in accepted}) EXCEPT !.has = accepted]

\* The signature drawdag gives a commit: its name, test@example.com, epoch.
AuthorName(v) == commits[v].name

AuthorEmail(v) == "test@example.com"

Summary(v) == commits[v].msg

AuthorTime(v) == commits[v].time

author(func_name, args, ctx) ==
    LET c == ensure_arg_count(func_name, args, 1, ctx)
        n == resolve_string(args[1])
        Matches(v) == StrContains(AuthorName(v), n.s) \/ StrContains(AuthorEmail(v), n.s)
    IN  IF ~IsOk(c) THEN c ELSE IF ~IsOk(n.r) THEN n.r
        ELSE filter_set({v \in DagAll : Matches(v)})

committer(func_name, args, ctx) ==
    LET c == ensure_arg_count(func_name, args, 1, ctx)
        n == resolve_string(args[1])
        Matches(v) == StrContains(AuthorName(v), n.s) \/ StrContains(AuthorEmail(v), n.s)
    IN  IF ~IsOk(c) THEN c ELSE IF ~IsOk(n.r) THEN n.r
        ELSE filter_set({v \in DagAll : Matches(v)})

desc(func_name, args, ctx) ==
    LET c == ensure_arg_count(func_name, args, 1, ctx)
        n == resolve_string(args[1])
        Matches(v) == StrContains(Summary(v), n.s)
    IN  IF ~IsOk(c) THEN c ELSE IF ~IsOk(n.r) THEN n.r
        ELSE filter_set({v \in DagAll : Matches(v)})

\* HgTime::parse_range on the "unixtime offset" forms the tests use:
\* <<start, end>>, or <<>> (None) for any other text.
parse_range(date_str) ==
    CASE date_str = "0 0" -> <<0, 0>>
      [] date_str = "1 0" -> <<1, 1>>
      [] date_str = "0 0 to 1 0" -> <<0, 1>>
      [] OTHER -> <<>>

date(func_name, args, ctx) ==
    LET c == ensure_arg_count(func_name, args, 1, ctx)
        n == resolve_string(args[1])
        date_range == parse_range(n.s)
        Matches(v) == date_range[1] <= AuthorTime(v) /\ AuthorTime(v) <= date_range[2]
    IN  IF ~IsOk(c) THEN c ELSE IF ~IsOk(n.r) THEN n.r
        ELSE IF date_range = <<>> THEN ParseError("invalid date: " \o n.s)
        ELSE filter_set({v \in DagAll : Matches(v)})

committer_date(func_name, args, ctx) ==
    LET c == ensure_arg_count(func_name, args, 1, ctx)
        n == resolve_string(args[1])
        date_range == parse_range(n.s)
        Matches(v) == date_range[1] <= AuthorTime(v) /\ AuthorTime(v) <= date_range[2]
    IN  IF ~IsOk(c) THEN c ELSE IF ~IsOk(n.r) THEN n.r
        ELSE IF date_range = <<>> THEN ParseError("invalid date: " \o n.s)
        ELSE filter_set({v \in DagAll : Matches(v)})

\* MAX_DEPTH of analyse_head_rewrite.
MAX_DEPTH == 50

\* commit.parent_ids().next(): the first parent, 0 for none.  The parents of
\* a commit are listed in the order of their vertexes.
FirstParent(v) ==
    LET ps == commits[v].parents
    IN  IF ps = {} THEN 0 ELSE CHOOSE p \in ps : \A q \in ps : p <= q

\* The loop of analyse_head_rewrite, `steps` iterations from the state w =
\* [old, new, old_stack, new_stack, seen].  An iteration that changes nothing
\* is followed only by iterations that change nothing.
RECURSIVE walk_stacks(_, _)
walk_stacks(w, steps) ==
    IF steps = 0 \/ w.old = w.new THEN w
    ELSE LET a == IF w.old \in w.seen THEN w
                  ELSE [w EXCEPT !.seen = @ \cup {w.old},
                                 !.old_stack = Append(@, w.old),
                                 !.old = IF FirstParent(w.old) # 0
                                         THEN FirstParent(w.old) ELSE @]
             b == IF a.new \in a.seen THEN a
                  ELSE [a EXCEPT !.seen = @ \cup {a.new},
                                 !.new_stack = Append(@, a.new),
                                 !.new = IF FirstParent(a.old) # 0
                                         THEN FirstParent(a.old) ELSE @]
         IN  CHOOSE r \in {IF next = w THEN w ELSE walk_stacks(next, steps - 1) :
                            next \in {b}} : TRUE

\* merge, were an entry of `map` kept when `other` holds its key.
Merge_keeping_first(map, other) ==
    CHOOSE merged \in {[k \in DOMAIN m \cup DOMAIN o |-> IF k \in DOMAIN m THEN m[k] ELSE o[k]] :
                        m \in {map}, o \in {other}} : TRUE

\* HashMap::merge: the entries of `other` are inserted into `map`.
Merge(map, other) ==
    CHOOSE merged \in {[k \in DOMAIN m \cup DOMAIN o |-> IF k \in DOMAIN o THEN o[k] ELSE m[k]] :
                        m \in {map}, o \in {other}} : TRUE

\* The replacements of the two stacks recorded old -> new.
pair_stacks_by_old(old_stack, new_stack) ==
    LET olds == {old_stack[i] : i \in 1..Len(old_stack)}
        news == {new_stack[i] : i \in 1..Len(new_stack)}
        Alike(o, n) == commits[o].tree = commits[n].tree
        Alone(o, n) == \A v \in (olds \cup news) \ {o, n} : ~Alike(v, o)
        replaced == {o \in olds : \E n \in news : n # o /\ Alike(o, n) /\ Alone(o, n)}
    IN  [o \in replaced |-> CHOOSE n \in news : n # o /\ Alike(o, n) /\ Alone(o, n)]

\* The replacements of the two stacks, were a bucket a pair as soon as its
\* first entry is old and it holds a new entry.
pair_stacks_first_of_each(old_stack, new_stack) ==
    LET olds == {old_stack[i] : i \in 1..Len(old_stack)}
        news == {new_stack[i] : i \in 1..Len(new_stack)}
        Alike(o, n) == commits[o].tree = commits[n].tree
        FirstOld(o) == \A i, j \in 1..Len(old_stack) :
                          (old_stack[j] = o /\ Alike(old_stack[i], o)) => j <= i
        paired == {n \in news : \E o \in olds : Alike(o, n)}
    IN  [n \in paired |-> CHOOSE o \in olds : Alike(o, n) /\ FirstOld(o)]

\* The second half of analyse_head_rewrite: the commits of the two stacks
\* in buckets by tree and by (author time, message); a bucket of exactly one
\* old and one new commit is a replacement new -> old.
pair_stacks(old_stack, new_stack) ==
    LET entries == [i \in 1..Len(old_stack) |-> [side |-> "Old", oid |-> old_stack[i]]]
                   \o [i \in 1..Len(new_stack) |-> [side |-> "New", oid |-> new_stack[i]]]
        oids == {old_stack[i] : i \in 1..Len(old_stack)}
                \cup {new_stack[i] : i \in 1..Len(new_stack)}
        MsgKey(v) == <<commits[v].time, commits[v].msg>>
        IsPair(b) == /\ Len(b) = 2
                     /\ b[1].side = "Old"
                     /\ b[2].side = "New"
                     /\ b[1].oid # b[2].oid
        tree_map == {b \in {SelectSeq(entries, LAMBDA e : commits[e.oid].tree = t) :
                                t \in {commits[v].tree : v \in oids}} : IsPair(b)}
        msg_map == {b \in {SelectSeq(entries, LAMBDA e : MsgKey(e.oid) = k) :
                               k \in {MsgKey(v) : v \in oids}} : IsPair(b)}
        \* the pairs of tree_map are inserted before those of msg_map
        pairs == {<<b[2].oid, b[1].oid, 1>> : b \in tree_map}
                 \cup {<<b[2].oid, b[1].oid, 2>> : b \in msg_map}
    IN  [n \in {p[1] : p \in pairs} |->
            (CHOOSE p \in pairs : p[1] = n /\ \A q \in pairs : q[1] = n => q[3] <= p[3])[2]]

\* analyse_head_rewrite: the replacements (new -> old) one rewrite of a
\* branch from old to new stands for.
analyse_head_rewrite(old, new) ==
    CHOOSE r \in {pair_stacks(w.old_stack, w.new_stack) :
                    w \in {walk_stacks([old |-> old, new |-> new, old_stack |-> <<>>,
                                        new_stack |-> <<>>, seen |-> {}], MAX_DEPTH)}} : TRUE

\* The loop of analyse_reflog_name over the rewrite entries from the i-th on;
\* the reflog lists the newest entry first.
RECURSIVE analyse_reflog_entries(_, _, _)
analyse_reflog_entries(entries, i, replaces) ==
    IF i > Len(entries) THEN replaces
    ELSE analyse_reflog_entries(entries, i + 1,
            Merge(replaces, analyse_head_rewrite(entries[i].old, entries[i].new)))

\* analyse_reflog_name: the replacements the rewrite entries ("commit
\* (amend):", "rebase -i (finish):") of the reflog of a reference stand for.
\* The entries of drawdag and add_ref ("commit", "add_ref") are none.
analyse_reflog_name(name) ==
    IF name \in DOMAIN reflog THEN analyse_reflog_entries(reflog[name], 1, EmptyMap)
    ELSE EmptyMap

\* The local branches, in the order of the keys of git_references.
BranchOrder == <<"refs/heads/A", "refs/heads/A_old", "refs/heads/B",
                 "refs/heads/B_old", "refs/heads/ab", "refs/heads/master">>

\* The first loop of infer_mutation_from_reflog, from the i-th branch on.
RECURSIVE infer_replaces(_, _)
infer_replaces(i, replaces) ==
    IF i > Len(BranchOrder) THEN replaces
    ELSE IF BranchOrder[i] \in DOMAIN git_references
         THEN infer_replaces(i + 1, Merge(replaces, analyse_reflog_name(BranchOrder[i])))
         ELSE infer_replaces(i + 1, replaces)

\* The relation of infer_mutation_from_reflog: new -> old.
Replaces == infer_replaces(1, EmptyMap)

\* parent_func of infer_mutation_from_reflog.
parent_func(replaces, v) == IF v \in DOMAIN replaces THEN {replaces[v]} ELSE {}

\* Whether `to` is reached from `from` along the edges of `known`.
RECURSIVE Reaches(_, _, _)
Reaches(known, from, to) ==
    \/ from = to
    \/ \E e \in known : e[1] = from /\ Reaches(known \ {e}, e[2], to)

\* add_heads on one head through break_parent_func_cycle: the walk from v
\* along parent_func, which drops a parent that already reaches its child.
\* `visited` are the vertexes whose parents are known, `known` the edges.
\* add_heads on one head with parent_func as it is, cycles included.
RECURSIVE add_head_unbroken(_, _, _)
add_head_unbroken(replaces, v, g) ==
    IF v \in g.visited THEN g
    ELSE CHOOSE r \in {IF parent_func(replaces, v) = {} THEN next
                       ELSE add_head_unbroken(replaces,
                                CHOOSE p \in parent_func(replaces, v) : TRUE, next) :
                       next \in {[visited |-> g.visited \cup {v},
                                  known |-> g.known \cup
                                      {<<v, p>> : p \in parent_func(replaces, v)}]}} : TRUE

RECURSIVE add_head(_, _, _)
add_head(replaces, v, g) ==
    IF v \in g.visited THEN g
    ELSE LET kept == {p \in parent_func(replaces, v) : ~Reaches(g.known, p, v)}
             g2 == [visited |-> g.visited \cup {v},
                    known |-> g.known \cup {<<v, p>> : p \in kept}]
         IN  CHOOSE r \in {IF kept = {} THEN next
                            ELSE add_head(replaces, CHOOSE p \in kept : TRUE, next) :
                            next \in {g2}} : TRUE

\* The heads given to add_heads: the keys that are no value.
MutationHeads(replaces) == DOMAIN replaces \ {replaces[k] : k \in DOMAIN replaces}

\* add_heads over the sorted heads from the i-th vertex on.
RECURSIVE add_heads(_, _, _)
add_heads(replaces, i, g) ==
    IF i > Len(commits) THEN g
    ELSE IF i \in MutationHeads(replaces)
         THEN CHOOSE r \in {add_heads(replaces, i + 1, next) :
                            next \in {add_head(replaces, i, g)}} : TRUE
         ELSE add_heads(replaces, i + 1, g)

\* infer_mutation_from_reflog of a relation: the graph, as the set of its
\* <<new, old>> edges.
infer_mutation(replaces) ==
    CHOOSE known \in {add_heads(r, 1, [visited |-> {}, known |-> {}]).known :
                        r \in {replaces}} : TRUE

\* Repo::mutation_dag: the graph infer_mutation_from_reflog builds.
mutation_dag == infer_mutation(Replaces)

\* The operations of the graph g, a set of <<new, old>> edges.
MutAll(g) == {e[1] : e \in g} \cup {e[2] : e \in g}

MutParents(g, S) == {e[2] : e \in {x \in g : x[1] \in S}}

MutChildren(g, S) == {e[1] : e \in {x \in g : x[2] \in S}}

RECURSIVE MutAncestors(_, _)
MutAncestors(g, S) ==
    IF MutParents(g, S) \subseteq S THEN S ELSE MutAncestors(g, S \cup MutParents(g, S))

RECURSIVE MutDescendants(_, _)
MutDescendants(g, S) ==
    IF MutChildren(g, S) \subseteq S THEN S ELSE MutDescendants(g, S \cup MutChildren(g, S))

\* set | (mutdag.ancestors(set & mutdag.all()) & dag.all())
Predecessors(g, set) == set \cup (MutAncestors(g, set \cap MutAll(g)) \cap DagAll)

\* successors, were the ancestors taken as in predecessors.
Successors_as_ancestors(g, set) == set \cup (MutAncestors(g, set \cap MutAll(g)) \cap DagAll)

\* set | (mutdag.descendants(set & mutdag.all()) & dag.all())
Successors(g, set) == set \cup (MutDescendants(g, set \cap MutAll(g)) \cap DagAll)

\* The draft commits that any commit replaces.
Obsolete_any_successor(g, draft_set) == MutParents(g, MutAll(g)) \cap draft_set

\* mutdag.parents(draft & mutdag.all()) & draft
Obsolete(g, draft_set) == MutParents(g, draft_set \cap MutAll(g)) \cap draft_set

predecessors(func_name, args, ctx) ==
    LET s == resolve_single_set(func_name, args, ctx)
    IN  IF ~IsOk(s) THEN s ELSE Ok(Predecessors(mutation_dag, s.set))

successors(func_name, args, ctx) ==
    LET s == resolve_single_set(func_name, args, ctx)
    IN  IF ~IsOk(s) THEN s ELSE Ok(Successors(mutation_dag, s.set))

obsolete(func_name, args, ctx) ==
    LET c == ensure_arg_count(func_name, args, 0, ctx)
        d == draft("draft", <<>>, ctx)
    IN  IF ~IsOk(c) THEN c ELSE IF ~IsOk(d) THEN d
        ELSE Ok(Obsolete(mutation_dag, d.set))

\* present(x): x, or the empty set when evaluating x fails with UnresolvedName.
present(func_name, args, ctx) ==
    LET s == resolve_single_set(func_name, args, ctx)
    IN  IF s.kind = "UnresolvedName" THEN to_set({}) ELSE s

\* apply(template, a1, a2, ...): the template with $1, $2, ... replaced by
\* the unevaluated a1, a2, ..., then evaluated.
apply(func_name, args, ctx) ==
    IF Len(args) = 0 THEN MismatchedArguments(func_name, 1, 0)
    ELSE eval(ReplaceArgs(args[1], Rest(args), 1), ctx)

\* empty()
empty(func_name, args, ctx) ==
    LET c == ensure_arg_count(func_name, args, 0, ctx)
    IN  IF ~IsOk(c) THEN c ELSE to_set({})

\* An alias, were its expansion evaluated under the default context.
alias_without_context(template, args, ctx) ==
    eval(ReplaceArgs(template, args, 1), DefaultContext)

\* An alias, were an expansion nested too deep refused with an error.
alias_with_depth_error(template, args, ctx) ==
    IF ctx.depth >= StackLimit - 1 THEN UnresolvedName("alias")
    ELSE eval(ReplaceArgs(template, args, 1), [ctx EXCEPT !.depth = @ + 1])

\* A function parse_eval_context registers for `revsetalias.<name> = template`:
\* the template with the arguments substituted is evaluated by a call nested
\* in the closure, whatever the closures already on the stack.
alias(template, args, ctx) ==
    IF ctx.depth >= StackLimit THEN StackOverflow
    ELSE eval(ReplaceArgs(template, args, 1), [ctx EXCEPT !.depth = @ + 1])

\* The builtin table of get_function: name -> function.
Builtins ==
    [parents |-> "parents", children |-> "children", ancestors |-> "ancestors",
     descendants |-> "descendants", heads |-> "heads", roots |-> "roots",
     range |-> "range", only |-> "only", ancestor |-> "gca", gca |-> "gca",
     intersection |-> "intersection", union |-> "union",
     difference |-> "difference", negate |-> "negate", first |-> "first",
     last |-> "last", head |-> "head", all |-> "all",
     publichead |-> "publichead", drafthead |-> "drafthead",
     public |-> "public", draft |-> "draft", author |-> "author",
     date |-> "date", committer |-> "committer",
     committerdate |-> "committer_date", desc |-> "desc",
     predecessors |-> "predecessors", successors |-> "successors",
     obsolete |-> "obsolete", rev |-> "rev", commit |-> "rev", ref |-> "ref"]

\* The builtins the documentation and the tests name beside those.
MoreBuiltins ==
    [id |-> "rev", empty |-> "empty", present |-> "present", apply |-> "apply"]

NoFunction == ""

AliasFunction == "<alias>"

\* get_function: the function a name resolves to.
get_function(name, ctx) ==
    IF name \in DOMAIN ctx.fns THEN AliasFunction
    ELSE IF name \in DOMAIN Builtins THEN Builtins[name]
    ELSE IF name \in DOMAIN MoreBuiltins THEN MoreBuiltins[name]
    ELSE NoFunction

\* func(name, repo, args, context)
call(func, name, args, ctx) ==
    CASE func = AliasFunction -> alias(ctx.fns[name], args, ctx)
      [] func = "parents" -> parents(name, args, ctx)
      [] func = "children" -> children(name, args, ctx)
      [] func = "ancestors" -> ancestors(name, args, ctx)
      [] func = "descendants" -> descendants(name, args, ctx)
      [] func = "heads" -> heads(name, args, ctx)
      [] func = "roots" -> roots(name, args, ctx)
      [] func = "range" -> range(name, args, ctx)
      [] func = "only" -> only(name, args, ctx)
      [] func = "gca" -> gca(name, args, ctx)
      [] func = "intersection" -> intersection(name, args, ctx)
      [] func = "union" -> union(name, args, ctx)
      [] func = "difference" -> difference(name, args, ctx)
      [] func = "negate" -> negate(name, args, ctx)
      [] func = "first" -> first(name, args, ctx)
      [] func = "last" -> last(name, args, ctx)
      [] func = "head" -> head(name, args, ctx)
      [] func = "all" -> all(name, args, ctx)
      [] func = "publichead" -> publichead(name, args, ctx)
      [] func = "drafthead" -> drafthead(name, args, ctx)
      [] func = "public" -> public(name, args, ctx)
      [] func = "draft" -> draft(name, args, ctx)
      [] func = "author" -> author(name, args, ctx)
      [] func = "date" -> date(name, args, ctx)
      [] func = "committer" -> committer(name, args, ctx)
      [] func = "committer_date" -> committer_date(name, args, ctx)
      [] func = "desc" -> desc(name, args, ctx)
      [] func = "predecessors" -> predecessors(name, args, ctx)
      [] func = "successors" -> successors(name, args, ctx)
      [] func = "obsolete" -> obsolete(name, args, ctx)
      [] func = "rev" -> rev(name, args, ctx)
      [] func = "ref" -> ref(name, args, ctx)
      [] func = "empty" -> empty(name, args, ctx)
      [] func = "present" -> present(name, args, ctx)
      [] func = "apply" -> apply(name, args, ctx)

\* eval: evaluate an AST, return the resulting set.
eval(expr, ctx) ==
    IF expr.t = "Name" THEN lookup(expr.s, ctx)
    ELSE LET func == get_function(expr.s, ctx)
         IN  IF func = NoFunction THEN UnresolvedName(expr.s)
             ELSE call(func, expr.s, expr.args, ctx)

\* The functions that resolve one set, and those that resolve two.
OneSetFns == {"parents", "children", "ancestors", "descendants", "heads", "roots",
              "negate", "last", "predecessors", "successors", "present"}

TwoSetFns == {"range", "only", "intersection", "union", "difference"}

FilterFns == {"author", "committer", "desc", "date", "committer_date"}

\* The expressions the evaluation of expr may evaluate: expr, the arguments
\* of its calls, and the templates of alias and apply with their arguments
\* substituted.
RECURSIVE SubExprs(_, _)
SubExprs(expr, ctx) ==
    IF expr.t = "Name" THEN {expr}
    ELSE LET func == get_function(expr.s, ctx)
             args == expr.args
         IN  {expr} \cup
             CASE func = AliasFunction ->
                    IF ctx.depth >= StackLimit THEN {}
                    ELSE SubExprs(ReplaceArgs(ctx.fns[expr.s], args, 1),
                                  [ctx EXCEPT !.depth = @ + 1])
               [] func = "apply" /\ Len(args) > 0 ->
                    SubExprs(ReplaceArgs(args[1], Rest(args), 1), ctx)
               [] OTHER -> UNION {SubExprs(args[i], ctx) : i \in 1..Len(args)}

\* The names for which the evaluation of expr calls cached_set and the
\* producer, or the cache, gives a set: the names the cache holds afterwards.
\* `evaluated` maps the expressions of SubExprs to what they evaluate to.
RECURSIVE CachedBy(_, _, _)
CachedBy(expr, ctx, evaluated) ==
    IF expr.t = "Name" THEN {}
    ELSE LET func == get_function(expr.s, ctx)
             args == expr.args
             n == Len(args)
             \* the arguments a loop over the arguments evaluates: those
             \* before the first that fails or that stops the loop
             Evaluated(stop_at_nonempty) ==
                 {i \in 1..n : \A k \in 1..(i - 1) :
                     /\ IsOk(evaluated[args[k]])
                     /\ stop_at_nonempty => evaluated[args[k]].set = {}}
             OfArgs(S) == UNION {CachedBy(args[i], ctx, evaluated) : i \in S}
         IN  CASE func = AliasFunction ->
                    IF ctx.depth >= StackLimit THEN {}
                    ELSE CachedBy(ReplaceArgs(ctx.fns[expr.s], args, 1),
                                  [ctx EXCEPT !.depth = @ + 1], evaluated)
               [] func = "apply" ->
                    IF n = 0 THEN {}
                    ELSE CachedBy(ReplaceArgs(args[1], Rest(args), 1), ctx, evaluated)
               [] func \in OneSetFns -> IF n # 1 THEN {} ELSE OfArgs({1})
               [] func \in TwoSetFns -> IF n # 2 THEN {} ELSE OfArgs(Evaluated(FALSE))
               [] func = "gca" -> OfArgs(Evaluated(FALSE))
               [] func = "first" -> OfArgs(Evaluated(TRUE))
               [] func = "all" -> IF n # 0 THEN {} ELSE {"all"}
               [] func = "publichead" -> IF n # 0 THEN {} ELSE {"publichead"}
               [] func = "drafthead" -> IF n # 0 THEN {} ELSE {"publichead", "drafthead"}
               [] func = "public" -> IF n # 0 THEN {} ELSE {"publichead", "public"}
               [] func \in {"draft", "obsolete"} ->
                    IF n # 0 THEN {} ELSE {"publichead", "public", "draft"}
               [] func \in FilterFns -> IF IsOk(evaluated[expr]) THEN {"all"} ELSE {}
               [] OTHER -> {}

\* The calls of the functions whose sets are cached under their names.
NamedSets == {"all", "publichead", "drafthead", "public", "draft"}

NamedCall(name) == Fn(name, <<>>)

\* The cache after the evaluation of expr: cached_set inserts what the
\* producer of a name returns unless the cache holds the name.
CacheAfter(expr, ctx, evaluated) ==
    [name \in DOMAIN cached_sets \cup CachedBy(expr, ctx, evaluated) |->
        IF name \in DOMAIN cached_sets THEN cached_sets[name]
        ELSE evaluated[NamedCall(name)].set]

\* The callers that share one repository handle.
Callers == {1, 2}

\* No cached_set call is in progress and none has returned, and no caller
\* holds the lock of the cache; the command-line tool is not run.
NoCalls == [t \in Callers |-> [frames |-> <<>>, ret |-> NoResult, lock |-> FALSE]]

\* The OnceCells of a handle just opened: neither is initialised (init), and
\* the initialiser of neither has failed (failed).
Cells == {"cached_mutation_dag", "cached_eval_context"}

NoCells == [c \in Cells |-> [init |-> FALSE, failed |-> FALSE]]

NoCli ==
    [status |-> "none", args |-> <<>>, print_ast |-> FALSE, out |-> <<>>,
     error |-> NoResult, err |-> <<>>, code |-> 0]

-----------------------------------------------------------------------------
(* The repository, driven as testrepo.rs drives it *)

\* TestRepo::new: an empty repository.
Init ==
    /\ commits = <<>>
    /\ refs = EmptyMap
    /\ reflog = EmptyMap
    /\ dag_refs = EmptyMap
    /\ cached_sets = EmptyMap
    /\ calls = NoCalls
    /\ cells = NoCells
    /\ cli = NoCli
    /\ query = NoExpr
    /\ context = DefaultContext
    /\ result = NoResult

\* references.insert(name, v) with force
SetRef(rs, name, v) == [r \in DOMAIN rs \cup {name} |-> IF r = name THEN v ELSE rs[r]]

\* The commit drawdag makes for `name` on the parents ps: the signature and
\* the message are the name, the tree holds the one file `name`, the time is
\* the epoch.
NewCommit(name, ps) ==
    [parents |-> ps, name |-> name, time |-> 0, tree |-> name, msg |-> name]

\* TestRepo::reload: a new handle, whose index snapshots the references rs
\* and whose cache is empty; no evaluation has run on it.
Reloaded(rs) ==
    /\ dag_refs' = rs
    /\ cached_sets' = EmptyMap
    /\ calls' = NoCalls
    /\ cells' = NoCells
    /\ query' = NoExpr
    /\ context' = DefaultContext
    /\ result' = NoResult

\* TestRepo::drawdag of one commit `name` on the parents ps: the commit (a
\* new object: its identity is its content), its branch refs/heads/<name>,
\* and the reload.
DrawCommit(name, ps) ==
    /\ Len(commits) < MaxCommits
    /\ ps \subseteq DagAll
    /\ \A v \in DagAll : commits[v] # NewCommit(name, ps)
    /\ commits' = Append(commits, NewCommit(name, ps))
    /\ refs' = SetRef(refs, "refs/heads/" \o name, Len(commits) + 1)
    /\ Reloaded(refs')
    /\ UNCHANGED <<reflog, cli>>

\* TestRepo::add_ref and the reload.
AddRef(name, v) ==
    /\ v \in DagAll
    /\ refs' = SetRef(refs, name, v)
    /\ Reloaded(refs')
    /\ UNCHANGED <<commits, reflog, cli>>

\* The most rewrite entries the reflogs hold.
MaxRewrites == 3

Rewrites ==
    Cardinality({e \in (DOMAIN reflog) \X (1..MaxRewrites) : e[2] <= Len(reflog[e[1]])})

\* The commit that commit.amend makes of the commit of a reference with a
\* new message: it keeps the parents, the tree and the author.
Amended(ref_name, new_msg) == [commits[refs[ref_name]] EXCEPT !.msg = new_msg]

\* Its vertex: the identity of a commit is its content, so it is the vertex
\* of the object store that has this content if there is one.
AmendedOid(ref_name, new_msg) ==
    LET same == {v \in DagAll : commits[v] = Amended(ref_name, new_msg)}
    IN  IF same = {} THEN Len(commits) + 1 ELSE CHOOSE v \in same : TRUE

\* commit.amend and the "commit (amend):" entry the update of the reference
\* adds to its reflog.
AmendCommit(ref_name, new_msg) ==
    LET oid == refs[ref_name]
        new_oid == AmendedOid(ref_name, new_msg)
    IN  /\ Rewrites < MaxRewrites
        /\ new_oid # oid
        /\ new_oid \notin DagAll => Len(commits) < MaxCommits
        /\ commits' = IF new_oid \in DagAll THEN commits
                      ELSE Append(commits, Amended(ref_name, new_msg))
        /\ reflog' = SetRef(reflog, ref_name,
                            <<[old |-> oid, new |-> new_oid]>>
                            \o (IF ref_name \in DOMAIN reflog
                                THEN reflog[ref_name] ELSE <<>>))

\* git commit --amend -m <new_msg> on a branch, and the repository opened
\* afterwards.
CommitAmend(ref_name, new_msg) ==
    /\ ref_name \in DOMAIN refs
    /\ AmendCommit(ref_name, new_msg)
    /\ refs' = SetRef(refs, ref_name, AmendedOid(ref_name, new_msg))
    /\ Reloaded(refs')
    /\ UNCHANGED cli

\* TestRepo::amend: the commit of the reference amended to the message
\* <msg>_new, the former commit kept as <ref_name>_old, and the reload.
Amend(ref_name) ==
    /\ ref_name \in DOMAIN refs
    /\ LET new_msg == commits[refs[ref_name]].msg \o "_new"
       IN  /\ AmendCommit(ref_name, new_msg)
           /\ refs' = SetRef(SetRef(refs, ref_name, AmendedOid(ref_name, new_msg)),
                             ref_name \o "_old", refs[ref_name])
    /\ Reloaded(refs')
    /\ UNCHANGED cli

\* Repo::revs_with_context: the result, and the named sets the evaluation
\* leaves in the cache.
Evaluate(expr, ctx) ==
    /\ query' = expr
    /\ context' = ctx
    /\ \E evaluated \in {[e \in SubExprs(expr, ctx) \cup {NamedCall(name) : name \in NamedSets}
                             |-> eval(e, ctx)]} :
          /\ result' = evaluated[expr]
          /\ cached_sets' = CacheAfter(expr, ctx, evaluated)

\* The first evaluation on the handle.
Revs(expr, ctx) ==
    /\ query = NoExpr
    /\ Evaluate(expr, ctx)
    /\ UNCHANGED <<commits, refs, reflog, dag_refs, calls, cells, cli>>

-----------------------------------------------------------------------------
(* Inputs *)

\* The largest set a query binds to a name of its context.
MaxSetSize == 2

\* A Context that binds the names of `names` (a function name -> Set).
Bind(names) == [names |-> names, fns |-> EmptyMap, depth |-> 0]

BindXY(X, Y) == Bind([n \in {"x", "y"} |-> IF n = "x" THEN X ELSE Y])

SmallSets == {S \in SUBSET DagAll : Cardinality(S) <= MaxSetSize}

Input(q, c) == [q |-> q, c |-> c]

\* git commit on the branch: on its head, beside its head (the former head
\* stays reachable only through other references), or merging the two.
GraphParents ==
    LET n == Len(commits)
    IN  IF n = 0 THEN {{}}
        ELSE IF n = 1 THEN {{1}}
        ELSE {{n}, {n - 1}, {n - 1, n}}

\* Names that are resolved: a name that is a branch, a tag, a remote branch
\* and a hash prefix at once; hash prefixes; the checkout; unknown names.
LookupNames == {"ab", "ab1", "ab2", "AB4", "ab43", "ab9", "zz", "a*",
                ".", "@", "HEAD", "master"}

\* The references add_ref sets in the specification of name resolution.
LookupRefs == {"refs/ab", "refs/heads/ab", "refs/tags/ab", "refs/remotes/ab"}

LookupInputs ==
    {Input(Name(n), DefaultContext) : n \in LookupNames}
    \cup {Input(Name(n), Bind([m \in {"ab"} |-> {}])) : n \in {"ab", "zz"}}
    \cup {Input(Fn("rev", <<Name(n)>>), DefaultContext) : n \in LookupNames}
    \cup {Input(Fn(f, <<Name(n)>>), DefaultContext) :
            f \in {"commit", "id"}, n \in {"ab", "AB4", ".", "zz"}}
    \cup {Input(Fn("ref", <<Name(n)>>), DefaultContext) : n \in {"ab", "zz"}}
    \cup {Input(Fn("present", <<x>>), DefaultContext) :
            x \in {Name("ab"), Name("zz"), Name("ab9"), Name("master"),
                   Fn("rev", <<Name("ab")>>), Fn("nosuch", <<>>),
                   Fn("parents", <<Name("zz")>>), Fn("parents", <<>>)}}

\* Name resolution: commits on the branch master, the four references a name
\* can stand for, and the evaluation of names.
Next ==
    \/ \E ps \in (IF Len(commits) = 0 THEN {{}} ELSE {{Len(commits)}}) :
          DrawCommit("master", ps)
    \/ \E r \in LookupRefs, v \in DagAll : AddRef(r, v)
    \/ query = NoExpr /\ \E i \in LookupInputs : Revs(i.q, i.c)

Spec == Init /\ [][Next]_vars

\* Sets that are the arguments of first and of apply; the texts and dates
\* filters look for.
PlainSets == {{}, DagAll \cap {1}, DagAll}

\* The [revsetalias] section: p = parents($1), gp = p(p($1)),
\* u = union($1, $2), and aliases that call themselves: loop =
\* parents(loop($1)), ping = pong($1), pong = ping($1), lazy =
\* first($1, lazy($1)).
AliasFns ==
    [name \in {"p", "gp", "u", "loop", "ping", "pong", "lazy"} |->
        CASE name = "p" -> Fn("parents", <<Name("$1")>>)
          [] name = "gp" -> Fn("p", <<Fn("p", <<Name("$1")>>)>>)
          [] name = "u" -> Fn("union", <<Name("$1"), Name("$2")>>)
          [] name = "loop" -> Fn("parents", <<Fn("loop", <<Name("$1")>>)>>)
          [] name = "ping" -> Fn("pong", <<Name("$1")>>)
          [] name = "pong" -> Fn("ping", <<Name("$1")>>)
          [] name = "lazy" -> Fn("first", <<Name("$1"), Fn("lazy", <<Name("$1")>>)>>)]

AliasCalls ==
    {Fn("p", <<Name("x")>>), Fn("gp", <<Name("x")>>), Fn("p", <<>>),
     Fn("u", <<Name("x"), Name("y")>>), Fn("u", <<Name("y")>>),
     Fn("u", <<Fn("gp", <<Name("x")>>), Name("zz")>>),
     Fn("loop", <<Name("x")>>), Fn("ping", <<Name("x")>>),
     Fn("lazy", <<Name("x")>>), Fn("lazy", <<Name("zz")>>)}

GraphInputs ==
    {Input(Fn("range", <<Name("x"), Name("y")>>), BindXY(X, Y)) :
        X \in SmallSets, Y \in SmallSets}
    \cup {Input(q, BindXY(X, {})) :
            q \in {Fn("negate", <<Name("x")>>),
                   Fn("negate", <<Fn("negate", <<Name("x")>>)>>)},
            X \in SmallSets}
    \cup {Input(q, DefaultContext) :
            q \in {Fn("draft", <<>>), Fn("public", <<>>), Fn("all", <<>>),
                   Fn("drafthead", <<>>), Fn("publichead", <<>>),
                   Fn("intersection", <<Fn("draft", <<>>), Fn("public", <<>>)>>),
                   Fn("union", <<Fn("draft", <<>>), Fn("public", <<>>)>>)}}
    \cup {Input(Fn("apply", <<Fn("apply", <<Name("$1")>>), Name("x")>>), BindXY(X, {})) :
            X \in PlainSets}
    \cup {Input(q, [BindXY(X, DagAll \cap {1}) EXCEPT !.fns = AliasFns]) :
            q \in AliasCalls, X \in PlainSets}
    \cup {Input(Fn(f, <<Name(text)>>), DefaultContext) :
            f \in {"author", "committer", "desc"}, text \in {"master", "zz"}}
    \cup {Input(Fn(f, <<Name(text)>>), DefaultContext) :
            f \in {"date", "committerdate"}, text \in {"0 0", "1 0"}}
    \cup {Input(q, BindXY(X, Y)) :
            q \in {Fn("first", <<>>),
                   Fn("first", <<Name("x")>>),
                   Fn("first", <<Name("x"), Name("y")>>),
                   Fn("first", <<Name("x"), Name("zz")>>),
                   Fn("first", <<Name("zz"), Name("x")>>),
                   Fn("first", <<Name("x"), Name("y"), Fn("rev", <<>>)>>),
                   Fn("first", <<Name("x"), Fn("parents", <<Name("y")>>), Name("y")>>),
                   Fn("apply", <<Name("$1"), Name(".")>>),
                   Fn("apply", <<Name("$2"), Name("x"), Name("y")>>),
                   Fn("apply", <<Fn("union", <<Name("$1"), Fn("parents", <<Name("$2")>>)>>),
                                 Name("x"), Name("y")>>),
                   Fn("apply", <<Fn("union", <<Fn("apply", <<Name("$1"), Name("y")>>),
                                               Name("$1")>>),
                                 Name("x")>>),
                   Fn("apply", <<Fn("difference", <<Name("$1"), Name("$1")>>), Name("y")>>)},
            X \in PlainSets, Y \in PlainSets}

\* The graph: commits on and beside the branch master, the branch reset to
\* another commit, a remote branch, and the evaluation of graph queries.
NextGraph ==
    \/ \E ps \in GraphParents : DrawCommit("master", ps)
    \/ \E r \in {"refs/remotes/ab", "refs/heads/master"}, v \in DagAll : AddRef(r, v)
    \/ query = NoExpr /\ \E i \in GraphInputs : Revs(i.q, i.c)

SpecGraph == Init /\ [][NextGraph]_vars

\* The most arguments a call is given.
MaxArgs == 3

ArgNames == <<".", "ab1", "master", "ab2", "@">>

StringFns == {"author", "committer", "desc", "date", "committerdate",
              "rev", "commit", "id", "ref"}

ArgInputs ==
    {Input(Fn(f, [i \in 1..k |-> Name(ArgNames[i])]), DefaultContext) :
        f \in DOMAIN Builtins \cup DOMAIN MoreBuiltins, k \in 0..MaxArgs}
    \cup {Input(Fn(f, <<a>>), DefaultContext) :
            f \in StringFns,
            a \in {Fn("head", <<>>), Fn("union", <<Name("a"), Name("b")>>)}}

\* Calls: a linear history, a remote branch, and every builtin called with
\* every number of arguments.
NextArgs ==
    \/ \E ps \in (IF Len(commits) = 0 THEN {{}} ELSE {{Len(commits)}}) :
          DrawCommit("master", ps)
    \/ \E v \in DagAll : AddRef("refs/remotes/ab", v)
    \/ query = NoExpr /\ \E i \in ArgInputs : Revs(i.q, i.c)

SpecArgs == Init /\ [][NextArgs]_vars

\* The most commits that are drawn before commits are amended.
MaxDrawn == 2

MutInputs ==
    {Input(Fn(f, <<Name("x")>>), BindXY(X, {})) :
        f \in {"predecessors", "successors"}, X \in SmallSets}
    \cup {Input(Fn(f, <<>>), DefaultContext) : f \in {"obsolete", "draft"}}

\* Rewrites: commits A and B on one another, the branch A reset, a remote
\* branch, the commit of A amended and amended back to its first message,
\* and the evaluation of the mutation queries.
NextMut ==
    \/ \E name \in {"A", "B"},
          ps \in (IF Len(commits) = 0 THEN {{}} ELSE {{Len(commits)}}) :
          Len(commits) < MaxDrawn /\ DrawCommit(name, ps)
    \/ \E r \in {"refs/remotes/ab", "refs/heads/A"}, v \in DagAll : AddRef(r, v)
    \/ Amend("refs/heads/A")
    \/ CommitAmend("refs/heads/A", "A")
    \/ query = NoExpr /\ \E i \in MutInputs : Revs(i.q, i.c)

SpecMut == Init /\ [][NextMut]_vars

-----------------------------------------------------------------------------
(* Rewrites of two branches (SpecRewrite) *)

\* The longest chain of commits that is drawn before a branch is rewritten.
MaxChain == 3

\* git rebase -i that ends with the branch on the commit v of the object
\* store: the "rebase -i (finish):" entry of its reflog, and the repository
\* opened afterwards.
RebaseFinish(ref_name, v) ==
    /\ ref_name \in DOMAIN refs
    /\ v \in DagAll
    /\ v # refs[ref_name]
    /\ Rewrites < MaxRewrites
    /\ reflog' = SetRef(reflog, ref_name,
                        <<[old |-> refs[ref_name], new |-> v]>>
                        \o (IF ref_name \in DOMAIN reflog
                            THEN reflog[ref_name] ELSE <<>>))
    /\ refs' = SetRef(refs, ref_name, v)
    /\ Reloaded(refs')
    /\ UNCHANGED <<commits, cli>>

NextRewrite ==
    \/ \E name \in {"A", "B"}, ps \in (IF Len(commits) = 0 THEN {{}} ELSE {{Len(commits)}}) :
          Len(commits) < MaxChain /\ Rewrites = 0 /\ DrawCommit(name, ps)
    \/ \E r \in {"refs/heads/A", "refs/heads/B"}, v \in DagAll : AddRef(r, v)
    \/ Amend("refs/heads/A")
    \/ CommitAmend("refs/heads/A", "A")
    \/ \E r \in {"refs/heads/A", "refs/heads/B"}, v \in DagAll : RebaseFinish(r, v)

SpecRewrite == Init /\ [][NextRewrite]_vars

-----------------------------------------------------------------------------
(* Repo::cached_set, step by step (SpecCache) *)

\* A cached_set call whose lookup missed: its producer is not yet invoked
\* (pc "start"), runs (pc "run", `got` holds what the cached sets it asked
\* for returned), or has returned `value`, which is not yet inserted (pc
\* "insert").
Frame(name) == [name |-> name, pc |-> "start", got |-> <<>>, value |-> {}]

Top(t) == calls[t].frames[Len(calls[t].frames)]

\* The cached sets the producer of a name asks for, in order: drafthead and
\* public call publichead, draft calls public.
Needs(name) ==
    CASE name = "drafthead" -> <<"publichead">>
      [] name = "public" -> <<"publichead">>
      [] name = "draft" -> <<"public">>
      [] OTHER -> <<>>

\* What the producer of a name returns, given what its cached_set calls
\* returned.
Producer(name, got) ==
    CASE name = "all" -> DagAncestors(git_heads)
      [] name = "publichead" ->
            {git_references[r] : r \in {k \in DOMAIN git_references :
                                           StartsWith(k, "refs/remotes/")}}
      [] name = "drafthead" -> git_heads \ got[1]
      [] name = "public" -> DagAncestors(got[1])
      [] name = "draft" -> DagAncestors(git_heads) \ got[1]

\* cached_set returns `value` to its caller: to the producer that called it,
\* or out of the outermost call.
Return(fs, value) ==
    IF fs = <<>> THEN [frames |-> <<>>, ret |-> Ok(value), lock |-> FALSE]
    ELSE [frames |-> [fs EXCEPT ![Len(fs)].got = Append(@, value)],
          ret |-> NoResult, lock |-> FALSE]

\* cached_sets.lock(): the Mutex is not re-entrant, it is taken while no
\* caller holds it, the caller itself included.
LockFree == \A u \in Callers : ~calls[u].lock

\* cached_set, were the cache not looked up.
Request_without_lookup(t, fs, name) ==
    /\ LockFree
    /\ calls' = [calls EXCEPT ![t] = [frames |-> Append(fs, Frame(name)),
                                      ret |-> NoResult, lock |-> FALSE]]

\* cached_set, were the guard of the lookup kept until the insert.
Request_holding_lock(t, fs, name) ==
    /\ LockFree
    /\ calls' = [calls EXCEPT ![t] =
                    IF name \in DOMAIN cached_sets
                    THEN Return(fs, cached_sets[name])
                    ELSE [frames |-> Append(fs, Frame(name)),
                          ret |-> NoResult, lock |-> TRUE]]

\* The entry of cached_set(name, func) called over the frames fs: the lookup
\* under the lock returns the cached set, or misses; the guard is dropped at
\* the end of the `if let`.
Request(t, fs, name) ==
    /\ LockFree
    /\ calls' = [calls EXCEPT ![t] =
                    IF name \in DOMAIN cached_sets
                    THEN Return(fs, cached_sets[name])
                    ELSE [frames |-> Append(fs, Frame(name)),
                          ret |-> NoResult, lock |-> FALSE]]

\* A caller asks for a named set.
Call(t, name) ==
    /\ calls[t].frames = <<>>
    /\ Request(t, <<>>, name)
    /\ UNCHANGED <<commits, refs, reflog, dag_refs, cached_sets, cells, cli, query, context, result>>

\* func(self): the producer is invoked after the lookup missed and the lock
\* was released.
Invoke(t) ==
    /\ calls[t].frames # <<>>
    /\ Top(t).pc = "start"
    /\ calls' = [calls EXCEPT ![t].frames[Len(calls[t].frames)].pc = "run"]
    /\ UNCHANGED <<commits, refs, reflog, dag_refs, cached_sets, cells, cli, query, context, result>>

\* The producer runs: it asks for the next cached set it needs, or returns.
Produce(t) ==
    /\ calls[t].frames # <<>>
    /\ Top(t).pc = "run"
    /\ IF Len(Top(t).got) < Len(Needs(Top(t).name))
       THEN Request(t, calls[t].frames, Needs(Top(t).name)[Len(Top(t).got) + 1])
       ELSE calls' = [calls EXCEPT ![t].frames[Len(calls[t].frames)] =
                        [@ EXCEPT !.pc = "insert",
                                  !.value = Producer(Top(t).name, Top(t).got)]]
    /\ UNCHANGED <<commits, refs, reflog, dag_refs, cached_sets, cells, cli, query, context, result>>

\* Ok(set) => insert(name, set.clone()) under the lock, and the return.
Insert(t) ==
    /\ calls[t].frames # <<>>
    /\ Top(t).pc = "insert"
    /\ LockFree
    /\ cached_sets' = SetRef(cached_sets, Top(t).name, Top(t).value)
    /\ calls' = [calls EXCEPT ![t] =
                    Return(SubSeq(calls[t].frames, 1, Len(calls[t].frames) - 1),
                           Top(t).value)]
    /\ UNCHANGED <<commits, refs, reflog, dag_refs, cells, cli, query, context, result>>

\* The producers that call the index or libgit2 while they run, and the
\* number of cached sets they have asked for when they do: draft takes the
\* ancestors before it asks for public, public after it asked for publichead.
Fallible(name) ==
    CASE name = "all" -> {0}
      [] name = "publichead" -> {0}
      [] name = "drafthead" -> {}
      [] name = "public" -> {1}
      [] name = "draft" -> {0}

\* cached_set, were the empty set cached for a producer that failed.
Fail_caching_empty(t) ==
    /\ calls[t].frames # <<>>
    /\ Top(t).pc = "run"
    /\ Len(Top(t).got) \in Fallible(Top(t).name)
    /\ LockFree
    /\ cached_sets' = SetRef(cached_sets, Top(t).name, {})
    /\ calls' = [calls EXCEPT ![t] = [frames |-> <<>>, ret |-> DagError, lock |-> FALSE]]
    /\ UNCHANGED <<commits, refs, reflog, dag_refs, cells, cli, query, context, result>>

\* The index fails under a running producer: func(self) is Err(e), which
\* cached_set returns as it is, and every producer on the way out returns it
\* with `?`; neither takes the lock.
Fail(t) ==
    /\ calls[t].frames # <<>>
    /\ Top(t).pc = "run"
    /\ Len(Top(t).got) \in Fallible(Top(t).name)
    /\ calls' = [calls EXCEPT ![t] = [frames |-> <<>>, ret |-> DagError, lock |-> FALSE]]
    /\ UNCHANGED <<commits, refs, reflog, dag_refs, cached_sets, cells, cli, query, context, result>>

\* git_repo.reference(name, oid, true, ..) while the handle stays open: the
\* handle's index keeps its snapshot.
UpdateRef(name, v) ==
    /\ v \in DagAll
    /\ refs' = SetRef(refs, name, v)
    /\ UNCHANGED <<commits, reflog, dag_refs, cached_sets, calls, cells, cli, query, context, result>>

\* reload takes the repository by &mut: no call on the handle is in progress.
Idle == \A t \in Callers : calls[t].frames = <<>>

\* OnceCell::get_or_try_init on mutation_dag() or eval_context_from_config():
\* a cell that is initialised returns what it holds; one that is not runs its
\* initialiser and keeps the value of Ok, and nothing of Err. Neither
\* initialiser calls cached_set.
get_or_try_init(c, ok) ==
    /\ Idle
    /\ cells' = [cells EXCEPT ![c] =
                    IF @.init THEN @
                    ELSE [init |-> ok, failed |-> ~ok]]
    /\ UNCHANGED <<commits, refs, reflog, dag_refs, cached_sets, calls, cli, query, context, result>>

NextCache ==
    \/ \E ps \in (IF Len(commits) = 0 THEN {{}} ELSE {{Len(commits)}}) :
          Idle /\ Len(commits) < MaxDrawn /\ DrawCommit("master", ps)
    \/ \E v \in DagAll : Idle /\ AddRef("refs/remotes/ab", v)
    \/ \E v \in DagAll : UpdateRef("refs/remotes/ab", v)
    \/ \E t \in Callers, name \in NamedSets : Call(t, name)
    \/ \E t \in Callers : Invoke(t)
    \/ \E t \in Callers : Produce(t)
    \/ \E t \in Callers : Insert(t)
    \/ \E t \in Callers : Fail(t)
    \/ \E c \in Cells, ok \in BOOLEAN : get_or_try_init(c, ok)

SpecCache == Init /\ [][NextCache]_vars

-----------------------------------------------------------------------------
(* bin/git-revs.rs (SpecCli) *)

\* The most arguments the tool is given.
MaxCliArgs == 3

\* A command-line argument is the flag, a text that does not parse, or a
\* text given by the expression it parses to.
AstFlag == [t |-> "Flag", s |-> "--ast", args |-> <<>>]

Unparsable == [t |-> "Unparsable", s |-> "(", args |-> <<>>]

CliInputs ==
    UNION {[1..n -> {AstFlag, Unparsable, Fn("all", <<>>), Name("."), Name("zz")}] :
            n \in 0..MaxCliArgs}

\* git-revs <args>: main calls try_main, which opens the repository.
CliRun(args) ==
    /\ cli.status \in {"none", "exited"}
    /\ cli' = [NoCli EXCEPT !.status = "running", !.args = args]
    /\ UNCHANGED <<commits, refs, reflog, dag_refs, cached_sets, calls, cells, query, context, result>>

\* try_main returns Err(e): `?` leaves the loop.
Failed(e) == [cli EXCEPT !.status = "failed", !.error = e]

\* println!: a line of the argument is on the output stream, and the loop
\* goes on with the next argument.
Printed(line) == [cli EXCEPT !.out = Append(@, line), !.args = Tail(@)]

\* One turn of the loop over env::args().skip(1).
CliArg ==
    /\ cli.status = "running"
    /\ cli.args # <<>>
    /\ LET arg == Head(cli.args)
       IN  IF arg = AstFlag
           THEN /\ cli' = [cli EXCEPT !.print_ast = TRUE, !.args = Tail(@)]
                /\ UNCHANGED <<cached_sets, query, context, result>>
           ELSE IF arg = Unparsable
           THEN /\ cli' = Failed(ParseError(arg.s))
                /\ UNCHANGED <<cached_sets, query, context, result>>
           ELSE IF cli.print_ast
           THEN /\ cli' = Printed([ast |-> Fmt(arg)])
                /\ UNCHANGED <<cached_sets, query, context, result>>
           ELSE /\ Evaluate(arg, DefaultContext)
                /\ cli' = IF IsOk(result') THEN Printed([set |-> result'.set])
                          ELSE Failed(result')
    /\ UNCHANGED <<commits, refs, reflog, dag_refs, calls, cells>>

\* main: try_main has returned; Err(e) is printed with eprintln!, and main
\* returns.
CliExit ==
    /\ \/ cli.status = "failed"
       \/ cli.status = "running" /\ cli.args = <<>>
    /\ cli' = [cli EXCEPT !.status = "exited",
                          !.err = IF cli.status = "failed" THEN Append(@, cli.error) ELSE @,
                          !.code = 0]
    /\ UNCHANGED <<commits, refs, reflog, dag_refs, cached_sets, calls, cells, query, context, result>>

NextCli ==
    \/ \E ps \in (IF Len(commits) = 0 THEN {{}} ELSE {{Len(commits)}}) :
          cli.status \in {"none", "exited"} /\ Len(commits) < MaxDrawn
          /\ DrawCommit("master", ps)
    \/ cli.status \in {"none", "exited"} /\ \E args \in CliInputs : CliRun(args)
    \/ CliArg
    \/ CliExit

SpecCli == Init /\ [][NextCli]_vars

-----------------------------------------------------------------------------
(* Name resolution (Spec) *)

\* Letters of a hex prefix compared without case.
FoldCase(ch) == IF ch \in UpperHex THEN LowerOf(ch) ELSE ch

RECURSIVE PrefixIgnoringCase(_, _)
PrefixIgnoringCase(p, s) ==
    IF p = "" THEN TRUE
    ELSE s # "" /\ FoldCase(Head(p)) = Head(s)
         /\ PrefixIgnoringCase(StrTail(p), StrTail(s))

\* The commits whose identity starts with h.
HashMatches(h) == {v \in DagAll : PrefixIgnoringCase(h, Hex(v))}

CheckoutNames == {".", "@", "HEAD"}

\* The references a bare name stands for, in the order they are tried.
RefCandidates(n) ==
    <<"refs/" \o n, "refs/heads/" \o n, "refs/tags/" \o n, "refs/remotes/" \o n>>

\* C1: a bare Name(n) evaluates to the set context.names binds to n if there
\* is one; otherwise to the vertex of the first existing reference among
\* refs/n, refs/heads/n, refs/tags/n, refs/remotes/n; otherwise to what the
\* commit-hash lookup of n gives; and it fails with UnresolvedName(n) when n
\* is neither a reference nor a hash.
C1_NameResolutionOrder ==
    query.t = "Name" =>
        LET n == query.s
            cands == RefCandidates(n)
            hits == {i \in 1..4 : cands[i] \in DOMAIN refs}
            m == HashMatches(n)
        IN  IF n \in DOMAIN context.names THEN result = Ok(context.names[n])
            ELSE IF hits # {}
                 THEN \E i \in hits :
                        (\A j \in hits : i <= j) /\ result = Ok({refs[cands[i]]})
            ELSE IF n \in CheckoutNames
                 THEN (HeadRef \in DOMAIN refs => result = Ok({refs[HeadRef]}))
            ELSE IF m = {} THEN result = UnresolvedName(n)
            ELSE IF Cardinality(m) = 1 THEN result = Ok(m)
            ELSE result.kind = "AmbiguousPrefix"

\* C1 happens: "ab" is a branch and a tag on different commits and a hash
\* prefix, not refs/ab, and the branch wins.
C1_Witness ==
    /\ query = Name("ab")
    /\ context = DefaultContext
    /\ "refs/ab" \notin DOMAIN refs
    /\ "refs/heads/ab" \in DOMAIN refs
    /\ "refs/tags/ab" \in DOMAIN refs
    /\ refs["refs/heads/ab"] # refs["refs/tags/ab"]
    /\ HashMatches("ab") # {}
    /\ result = Ok({refs["refs/heads/ab"]})

\* C2: present(x) never fails with UnresolvedName; it is the set of x when x
\* evaluates, the empty set when x fails with UnresolvedName, and the error
\* of x when x fails otherwise.
C2_PresentNeverUnresolved ==
    (query.t = "Fn" /\ query.s = "present" /\ Len(query.args) = 1) =>
        LET x == query.args[1]
            rx == eval(x, context)
        IN  /\ result.kind # "UnresolvedName"
            /\ (x = Name("zz") => result = Ok({}))
            /\ (x = Fn("nosuch", <<>>) => result = Ok({}))
            /\ (x = Fn("parents", <<Name("zz")>>) => result = Ok({}))
            /\ (x = Fn("parents", <<>>) =>
                    result = MismatchedArguments("parents", 1, 0))
            /\ (x = Name("master") /\ commits # <<>> => result = Ok({Len(commits)}))
            /\ (x = Name("ab9") => result = Ok({}))
            /\ (x = Name("ab") /\ (\A r \in LookupRefs : r \notin DOMAIN refs) =>
                    result = (IF Len(commits) = 0 THEN Ok({})
                              ELSE IF Len(commits) = 1 THEN Ok({1})
                              ELSE AmbiguousPrefix(result.set)))
            /\ (IF rx.kind = "UnresolvedName" THEN result = Ok({}) ELSE result = rx)

\* C2 happens: present of an unknown name is the empty set, in a repository
\* that has commits.
C2_Witness ==
    /\ query = Fn("present", <<Name("zz")>>)
    /\ Len(commits) >= 2
    /\ result = Ok({})

\* C5, as amended: rev/commit/id(h) is the checkout when h is `.`, `@` or
\* HEAD and there is one; otherwise h is a hex prefix read without case:
\* no commit matching gives UnresolvedName(h), one gives its singleton, more
\* give AmbiguousPrefix carrying as many of the matching vertices as the
\* limit of 3 allows (all of them when two or three match).
C5_PrefixLookup ==
    (query.t = "Fn" /\ query.s \in {"rev", "commit", "id"} /\ Len(query.args) = 1) =>
        LET h == query.args[1].s
            m == HashMatches(h)
        IN  IF h \in CheckoutNames
            THEN (HeadRef \in DOMAIN refs => result = Ok({refs[HeadRef]}))
            ELSE IF m = {} THEN result = UnresolvedName(h)
            ELSE IF Cardinality(m) = 1 THEN result = Ok(m)
            ELSE /\ result.kind = "AmbiguousPrefix"
                 /\ result.set \subseteq m
                 /\ Cardinality(result.set) =
                        (IF Cardinality(m) <= 3 THEN Cardinality(m) ELSE 3)

\* C5 happens: two commits share the prefix ab2 and it is ambiguous between
\* exactly those two.
C5_Witness ==
    /\ query = Fn("rev", <<Name("ab2")>>)
    /\ HashMatches("ab2") = {2, 3}
    /\ result = AmbiguousPrefix({2, 3})

\* C5 as the specification states it: more than one match gives
\* AmbiguousPrefix carrying exactly the matching vertices.
C5_AmbiguousCarriesAllMatches ==
    (query.t = "Fn" /\ query.s \in {"rev", "commit", "id"} /\ Len(query.args) = 1) =>
        LET h == query.args[1].s
            m == HashMatches(h)
        IN  IF h \in CheckoutNames
            THEN (HeadRef \in DOMAIN refs => result = Ok({refs[HeadRef]}))
            ELSE IF m = {} THEN result = UnresolvedName(h)
            ELSE IF Cardinality(m) = 1 THEN result = Ok(m)
            ELSE result = AmbiguousPrefix(m)

-----------------------------------------------------------------------------
(* Graph queries (SpecGraph) *)

\* The sets the context of a graph query binds to x and y.
BoundX == context.names["x"]

BoundY == context.names["y"]

ApplyOfFirstArg == Fn("apply", <<Name("$1"), Name(".")>>)

ApplyOfSecondArg == Fn("apply", <<Name("$2"), Name("x"), Name("y")>>)

ApplyOfUnion ==
    Fn("apply", <<Fn("union", <<Name("$1"), Fn("parents", <<Name("$2")>>)>>),
                  Name("x"), Name("y")>>)

ApplyOfApply ==
    Fn("apply", <<Fn("union", <<Fn("apply", <<Name("$1"), Name("y")>>), Name("$1")>>),
                  Name("x")>>)

ApplyOfDifference ==
    Fn("apply", <<Fn("difference", <<Name("$1"), Name("$1")>>), Name("y")>>)

C7_RangeIsDescendantsAndAncestors ==
    query = Fn("range", <<Name("x"), Name("y")>>) =>
        result = eval(Fn("intersection", <<Fn("descendants", <<Name("x")>>),
                                           Fn("ancestors", <<Name("y")>>)>>),
                      context)

\* The visible universe: the ancestors of the heads.
VisibleCommits == DagAncestors(git_heads)

\* C8: negate(x) is the members of all(), the visible universe, that are not
\* in x; and negate(negate(x)) is x for every x within the visible universe.
C8_NegateWithinVisible ==
    /\ query = Fn("negate", <<Name("x")>>) =>
          /\ result = eval(Fn("difference", <<Fn("all", <<>>), Name("x")>>), context)
          /\ result = Ok(VisibleCommits \ BoundX)
    /\ (query = Fn("negate", <<Fn("negate", <<Name("x")>>)>>)
        /\ BoundX \subseteq VisibleCommits) =>
          result = Ok(BoundX)

\* The commits the remote branches reach.
PublicCommits ==
    DagAncestors({refs[r] : r \in {k \in DOMAIN refs : StartsWith(k, "refs/remotes/")}})

\* C9: draft() and public() are disjoint, their union is all(), and draft()
\* is all() - public(), which is ancestors(drafthead()) - public().
C9_DraftPublicPartition ==
    /\ query = Fn("intersection", <<Fn("draft", <<>>), Fn("public", <<>>)>>) =>
          result = Ok({})
    /\ query = Fn("union", <<Fn("draft", <<>>), Fn("public", <<>>)>>) =>
          /\ result = eval(Fn("all", <<>>), context)
          /\ result = Ok(VisibleCommits)
    /\ query = Fn("public", <<>>) => result = Ok(PublicCommits)
    /\ query = Fn("draft", <<>>) =>
          /\ result = Ok(VisibleCommits \ PublicCommits)
          /\ result = eval(Fn("difference", <<Fn("all", <<>>), Fn("public", <<>>)>>),
                           context)
          /\ result = eval(Fn("difference",
                              <<Fn("ancestors", <<Fn("drafthead", <<>>)>>),
                                Fn("public", <<>>)>>),
                           context)

\* C9 happens: some commits are public, some are draft, and the two sets
\* are disjoint.
C9_Witness ==
    /\ query = Fn("intersection", <<Fn("draft", <<>>), Fn("public", <<>>)>>)
    /\ PublicCommits # {}
    /\ VisibleCommits \ PublicCommits # {}
    /\ result = Ok({})

\* What first gives for the results rs of its arguments, taken in order.
RECURSIVE FirstOf(_)
FirstOf(rs) ==
    IF rs = <<>> THEN Ok({})
    ELSE IF ~IsOk(Head(rs)) THEN Head(rs)
    ELSE IF Head(rs).set # {}
         THEN Ok({CHOOSE v \in Head(rs).set : \A w \in Head(rs).set : w <= v})
    ELSE FirstOf(Tail(rs))

FirstWithLateError == Fn("first", <<Name("x"), Name("y"), Fn("rev", <<>>)>>)

\* C10: first(a1, ..., an) is the first element of the first ai, from the
\* left, whose set is not empty; the arguments after that one are not
\* evaluated (their errors are not raised), the error of an argument before
\* it is the result, and the result is the empty set when every ai is empty.
C10_FirstShortCircuits ==
    (query.t = "Fn" /\ query.s = "first") =>
        /\ result = FirstOf([i \in 1..Len(query.args) |-> eval(query.args[i], context)])
        /\ query = FirstWithLateError =>
              result = (IF BoundX # {} THEN FirstOf(<<Ok(BoundX)>>)
                        ELSE IF BoundY # {} THEN FirstOf(<<Ok(BoundY)>>)
                        ELSE MismatchedArguments("rev", 1, 0))
        /\ query = Fn("first", <<Name("zz"), Name("x")>>) =>
              result = UnresolvedName("zz")
        /\ query = Fn("first", <<>>) => result = Ok({})

\* C10 happens: the first argument is empty, the second holds several
\* commits, and the third, which is an error, is not evaluated.
C10_Witness ==
    /\ query = FirstWithLateError
    /\ BoundX = {}
    /\ Cardinality(BoundY) >= 2
    /\ result = Ok({Len(commits)})

-----------------------------------------------------------------------------
(* Calls (SpecArgs) *)

\* The functions that take one argument or more.
AtLeastOne == {"gca", "ancestor", "first", "apply"}

\* The number of arguments a function takes (the least, for AtLeastOne).
Arity ==
    [parents |-> 1, children |-> 1, ancestors |-> 1, descendants |-> 1,
     heads |-> 1, roots |-> 1, range |-> 2, only |-> 2, ancestor |-> 1,
     gca |-> 1, intersection |-> 2, union |-> 2, difference |-> 2,
     negate |-> 1, first |-> 1, last |-> 1, head |-> 0, all |-> 0,
     publichead |-> 0, drafthead |-> 0, public |-> 0, draft |-> 0,
     author |-> 1, committer |-> 1, desc |-> 1, date |-> 1,
     committerdate |-> 1, predecessors |-> 1, successors |-> 1,
     obsolete |-> 0, rev |-> 1, commit |-> 1, id |-> 1, ref |-> 1,
     empty |-> 0, present |-> 1, apply |-> 1]

\* k arguments are within the arity of f (ref takes none or one).
WithinArity(f, k) ==
    IF f \in AtLeastOne THEN k >= 1
    ELSE IF f = "ref" THEN k \in {0, 1}
    ELSE k = Arity[f]

\* C4: a call of a builtin whose number of arguments is outside the arity of
\* the builtin (gca, ancestor and first with none too) fails with
\* MismatchedArguments of the called name, the expected and the actual count.
C4_ArityEnforced ==
    (query.t = "Fn" /\ query.s \in DOMAIN Arity
     /\ ~WithinArity(query.s, Len(query.args))) =>
        result = MismatchedArguments(query.s, Arity[query.s], Len(query.args))

\* C6: a function that expects a literal name (author, committer, desc, date,
\* committerdate, rev, commit, id, ref) fails with ExpectString when that
\* argument is a function call.
C6_ExpectStringOnCall ==
    (query.t = "Fn" /\ query.s \in StringFns /\ Len(query.args) = 1
     /\ query.args[1].t = "Fn") =>
        result.kind = "ExpectString"

-----------------------------------------------------------------------------
(* Rewrites (SpecMut) *)

\* The set the query binds to x.
BoundTo(name) == context.names[name]

IsCallOn(f, name) == query = Fn(f, <<Name(name)>>) /\ name \in DOMAIN context.names

\* The one rewrite of the reflogs, when the branch A was amended once and
\* still is where the amend left it.
AmendedOnce ==
    /\ Rewrites = 1
    /\ refs["refs/heads/A"] = reflog["refs/heads/A"][1].new

H_old == reflog["refs/heads/A"][1].old

H_new == reflog["refs/heads/A"][1].new

\* C11: predecessors(x) (successors(x)) is x with the ancestors (descendants)
\* of x in the mutation graph that are in the main graph; it contains x; it
\* is x when no member of x is in the mutation graph; and after H was amended
\* into H_new, predecessors(H_new) and successors(H_old) are {H_new, H_old}.
C11_PredecessorsSuccessors ==
    /\ IsCallOn("predecessors", "x") =>
          /\ result = Ok(BoundTo("x") \cup (MutAncestors(mutation_dag,
                            BoundTo("x") \cap MutAll(mutation_dag)) \cap DagAll))
          /\ BoundTo("x") \subseteq result.set
          /\ BoundTo("x") \cap MutAll(mutation_dag) = {} => result.set = BoundTo("x")
          /\ AmendedOnce /\ BoundTo("x") = {H_new} => result.set = {H_new, H_old}
    /\ IsCallOn("successors", "x") =>
          /\ result = Ok(BoundTo("x") \cup (MutDescendants(mutation_dag,
                            BoundTo("x") \cap MutAll(mutation_dag)) \cap DagAll))
          /\ BoundTo("x") \subseteq result.set
          /\ BoundTo("x") \cap MutAll(mutation_dag) = {} => result.set = BoundTo("x")
          /\ AmendedOnce /\ BoundTo("x") = {H_old} => result.set = {H_new, H_old}

\* The draft commits: the visible commits that are not public.
DraftCommits == VisibleCommits \ PublicCommits

StacksOf(entry) ==
    walk_stacks([old |-> entry.old, new |-> entry.new, old_stack |-> <<>>,
                 new_stack |-> <<>>, seen |-> {}], MAX_DEPTH)

\* The pairs <<new, old>> a rewrite entry stands for: a commit of the new
\* stack and a commit of the old stack that alone in the two stacks have
\* their tree, or their author time and message.
PairsOf(entry) ==
    LET olds == {StacksOf(entry).old_stack[i] : i \in 1..Len(StacksOf(entry).old_stack)}
        news == {StacksOf(entry).new_stack[i] : i \in 1..Len(StacksOf(entry).new_stack)}
        SameTree(v, w) == commits[v].tree = commits[w].tree
        SameMessage(v, w) == commits[v].time = commits[w].time /\ commits[v].msg = commits[w].msg
    IN  {<<n, o>> \in news \X olds :
            /\ n # o
            /\ \/ SameTree(n, o) /\ \A v \in (olds \cup news) \ {n, o} : ~SameTree(v, o)
               \/ SameMessage(n, o) /\ \A v \in (olds \cup news) \ {n, o} : ~SameMessage(v, o)}

\* The pairs of the rewrite entries of the reflogs of the local branches.
RewritePairs ==
    UNION {PairsOf(reflog[r][i]) : <<r, i>> \in
             {<<r, i>> \in (DOMAIN reflog \cap DOMAIN git_references) \X (1..MaxRewrites) :
                 i <= Len(reflog[r])}}

\* The aggregated replacement relation, as pairs <<new, old>>.
ReplacementPairs == {<<n, Replaces[n]>> : n \in DOMAIN Replaces}

\* C19, as stated: each old vertex is replaced by at most one new vertex.
C19_OldHasOneNew ==
    \A p, q \in ReplacementPairs : p[2] = q[2] => p[1] = q[1]

\* C19, amended: each new vertex replaces at most one old vertex, and the
\* replacement recorded for it is one a rewrite entry stands for.
C19_NewHasOneOld ==
    /\ \A p, q \in ReplacementPairs : p[1] = q[1] => p[2] = q[2]
    /\ ReplacementPairs \subseteq RewritePairs
    /\ {p[1] : p \in ReplacementPairs} = {p[1] : p \in RewritePairs}

\* One old vertex is recorded as replaced by two new vertexes.
C19_Witness ==
    \E p, q \in ReplacementPairs : p[2] = q[2] /\ p[1] # q[1]

\* The vertexes that replace v, directly or through other vertexes, in the
\* graph g.
RECURSIVE ReplacedBy(_, _, _)
ReplacedBy(g, S, n) ==
    IF n = 0 THEN {}
    ELSE {e[1] : e \in {x \in g : x[2] \in S}}
         \cup ReplacedBy(g, {e[1] : e \in {x \in g : x[2] \in S}}, n - 1)

\* The relation holds a cycle: a vertex that replaces itself through others.
RelationHasCycle ==
    \E v \in DagAll : v \in ReplacedBy(ReplacementPairs, {v}, MaxCommits)

\* C20: for every inferred replacement relation, also one with cycles or
\* duplicate edges, the mutation graph is acyclic and its heads are exactly
\* the vertexes that are a "new" key and never an "old" value.
C20_MutationGraphAcyclic ==
    /\ \A v \in DagAll : v \notin ReplacedBy(mutation_dag, {v}, MaxCommits)
    /\ {v \in MutAll(mutation_dag) : \A e \in mutation_dag : e[2] # v}
         = {p[1] : p \in ReplacementPairs} \ {p[2] : p \in ReplacementPairs}
    /\ mutation_dag \subseteq ReplacementPairs

\* A relation with a cycle and a head, recorded by three rewrite entries.
C20_Witness ==
    /\ RelationHasCycle
    /\ mutation_dag # {}
    /\ Rewrites = 3

-----------------------------------------------------------------------------
(* Filters (SpecGraph) *)

IsFilterQuery ==
    /\ query.t = "Fn"
    /\ query.s \in {"author", "committer", "desc", "date", "committerdate"}
    /\ IsOk(result)

\* C13: for a filter set and every vertex v of the object store, iterating
\* the set produces v if and only if the membership test of the set holds
\* of v.
C13_FilterPathsAgree ==
    IsFilterQuery => \A v \in DagAll : v \in result.set <=> v \in result.has

-----------------------------------------------------------------------------
(* Substitution (SpecGraph) *)

\* The first argument of every apply call of `before` is the first argument
\* of the same call of `after`, where `after` is `before` with names replaced.
RECURSIVE TemplatesHeld(_, _)
TemplatesHeld(before, after) ==
    \/ before.t = "Name"
    \/ /\ after.t = "Fn"
       /\ after.s = before.s
       /\ Len(after.args) = Len(before.args)
       /\ \A i \in 1..Len(before.args) :
             IF before.s = "apply" /\ i = 1
             THEN after.args[1] = before.args[1]
             ELSE TemplatesHeld(before.args[i], after.args[i])

\* C18: Expr::replace(from, to), as apply runs it on its template for each of
\* its arguments, leaves the first argument of every apply call of the
\* template unchanged, whatever the number of arguments of that call (one
\* argument included).
C18_ReplaceHoldsApplyTemplate ==
    (query.t = "Fn" /\ query.s = "apply" /\ Len(query.args) >= 1) =>
        \A i \in 1..(Len(query.args) - 1) :
            TemplatesHeld(query.args[1],
                          replace(query.args[1], Placeholder(i), query.args[i + 1]))

-----------------------------------------------------------------------------
(* Aliases (SpecGraph) *)

IsAliasCall == query.t = "Fn" /\ query.s \in DOMAIN context.fns

-----------------------------------------------------------------------------
(* The cache of named sets (SpecCache) *)

IsReload ==
    \/ \E ps \in SUBSET DagAll : DrawCommit("master", ps)
    \/ \E v \in DagAll : AddRef("refs/remotes/ab", v)

\* The producer that runs for a caller asks for a cached set that is cached.
AsksForCached(t, name) ==
    /\ Produce(t)
    /\ Len(Top(t).got) < Len(Needs(Top(t).name))
    /\ name = Needs(Top(t).name)[Len(Top(t).got) + 1]

\* C17: on one handle, once a named set is cached, no step but the opening
\* of a new handle removes or replaces its entry, whatever happens to the
\* references, and every later request for the name, from a caller or from
\* a producer, returns the cached set without invoking the producer.
C17_CachedSetKept ==
    [][/\ ~IsReload =>
             \A name \in DOMAIN cached_sets :
                 /\ name \in DOMAIN cached_sets'
                 /\ cached_sets'[name] = cached_sets[name]
       /\ \A t \in Callers, name \in DOMAIN cached_sets :
             /\ Call(t, name) =>
                   calls'[t] = [frames |-> <<>>, ret |-> Ok(cached_sets[name]),
                                lock |-> FALSE]
             /\ AsksForCached(t, name) =>
                   /\ Len(calls'[t].frames) = Len(calls[t].frames)
                   /\ calls'[t].frames[Len(calls[t].frames)].got
                        = Append(Top(t).got, cached_sets[name])]_vars

\* C17 happens: public() was cached while the remote branch was at commit 1;
\* the branch has moved to commit 2 since, and both callers were returned
\* the cached set, which a newly opened handle would not compute.
C17_Witness ==
    /\ Idle
    /\ "public" \in DOMAIN cached_sets
    /\ "refs/remotes/ab" \in DOMAIN refs
    /\ refs["refs/remotes/ab"] \notin cached_sets["public"]
    /\ \A t \in Callers : calls[t].ret = Ok(cached_sets["public"])

-----------------------------------------------------------------------------
(* The command-line tool (SpecCli) *)

\* C15: the tool processes its arguments in order; once --ast is seen every
\* later argument (but the flag repeated) is printed as an AST and none is
\* evaluated; the first
\* argument that fails to parse or to evaluate aborts the run: no later
\* argument is processed, the error is written to the error stream and the
\* run is reported as a failure.
C15_CliAbortsWithFailure ==
    [][/\ (cli.status = "running" /\ cli.print_ast) =>
             /\ cli'.status # "none" => cli'.print_ast
             /\ CliArg =>
                   /\ cached_sets' = cached_sets
                   /\ result' = result
                   /\ \/ cli' = Printed([ast |-> Fmt(Head(cli.args))])
                      \/ cli'.status = "failed"
                      \/ Head(cli.args) = AstFlag /\ cli' = [cli EXCEPT !.args = Tail(@)]
       /\ cli.status = "failed" =>
             /\ cli'.status = "exited"
             /\ cli'.args = cli.args
             /\ cli'.out = cli.out
             /\ cli'.err = <<cli.error>>
             /\ cli'.code # 0]_vars

-----------------------------------------------------------------------------
(* The walk and the buckets of analyse_head_rewrite (SpecRewrite) *)

\* The rewrite entries of the reflogs.
RewriteEntries ==
    UNION {{reflog[r][i] : i \in 1..Len(reflog[r])} : r \in DOMAIN reflog}

\* v and the commits on its first-parent chain.
RECURSIVE FirstParentChain(_)
FirstParentChain(v) ==
    IF FirstParent(v) = 0 THEN {v} ELSE {v} \cup FirstParentChain(FirstParent(v))

Members(stack) == {stack[i] : i \in 1..Len(stack)}

\* C21: for each rewrite pair (old, new), the walk fills old_stack only with
\* old and commits on old's own first-parent chain, and new_stack only with
\* new and commits on new's own first-parent chain; each stack gets at most
\* 50 commits, one a step, and none when the two identities are the same.
C21_StacksOnOwnChains ==
    \A entry \in RewriteEntries :
        /\ Members(StacksOf(entry).old_stack) \subseteq FirstParentChain(entry.old)
        /\ Members(StacksOf(entry).new_stack) \subseteq FirstParentChain(entry.new)
        /\ Len(StacksOf(entry).old_stack) <= MAX_DEPTH
        /\ Len(StacksOf(entry).new_stack) <= MAX_DEPTH
        /\ entry.old = entry.new =>
              StacksOf(entry).old_stack = <<>> /\ StacksOf(entry).new_stack = <<>>

\* The edges <<new, old>> of the buckets of a key for a rewrite entry: a
\* bucket gives an edge when it holds exactly one commit of the old stack
\* and exactly one of the new stack.
BucketEdges(entry, map) ==
    LET olds == Members(StacksOf(entry).old_stack)
        news == Members(StacksOf(entry).new_stack)
        Key(v) == IF map = "tree" THEN <<commits[v].tree>>
                  ELSE <<commits[v].time, commits[v].msg>>
    IN  {<<n, o>> \in news \X olds :
            /\ n # o
            /\ Key(n) = Key(o)
            /\ Cardinality({v \in olds : Key(v) = Key(o)}) = 1
            /\ Cardinality({v \in news : Key(v) = Key(n)}) = 1}

\* The map analyse_head_rewrite returns for a rewrite entry, as pairs
\* <<new, old>>.
EdgesOf(entry) ==
    {<<n, analyse_head_rewrite(entry.old, entry.new)[n]>> :
        n \in DOMAIN analyse_head_rewrite(entry.old, entry.new)}

\* C22, as stated: for one rewrite pair, an edge new -> old is recorded for
\* a bucket of the tree map or of the (author time, message) map exactly
\* when the bucket holds exactly one entry of the old stack and exactly one
\* of the new stack, which differ.
C22_EdgePerBucket ==
    \A entry \in RewriteEntries :
        EdgesOf(entry) = BucketEdges(entry, "tree") \cup BucketEdges(entry, "msg")

\* C22, amended: the same, but the edge of a tree bucket is left out when a
\* message bucket gives an edge for the same new identity.
C22_EdgePerBucketMessageFirst ==
    \A entry \in RewriteEntries :
        EdgesOf(entry) =
            BucketEdges(entry, "msg")
            \cup {p \in BucketEdges(entry, "tree") :
                    \A q \in BucketEdges(entry, "msg") : q[1] # p[1]}

\* C22 happens: a rewrite entry with a tree bucket and a message bucket that
\* pair one new commit with two old commits, another whose bucket holds two
\* old commits and gives no edge.
C22_Witness ==
    /\ \E entry \in RewriteEntries :
          \E p \in BucketEdges(entry, "tree"), q \in BucketEdges(entry, "msg") :
              p[1] = q[1] /\ p[2] # q[2] /\ q \in EdgesOf(entry)
    /\ \E entry \in RewriteEntries :
          /\ EdgesOf(entry) = {}
          /\ Len(StacksOf(entry).old_stack) >= 2
          /\ StacksOf(entry).new_stack # <<>>

\* The aliases the template of an alias calls.
RECURSIVE AliasesIn(_)
AliasesIn(expr) ==
    IF expr.t = "Name" THEN {}
    ELSE ({expr.s} \cap DOMAIN context.fns)
         \cup UNION {AliasesIn(expr.args[i]) : i \in 1..Len(expr.args)}

\* The aliases an alias reaches in n steps along the references of the
\* templates.
RECURSIVE AliasesReached(_, _)
AliasesReached(names, n) ==
    IF n = 0 THEN {}
    ELSE UNION {AliasesIn(context.fns[f]) : f \in names}
         \cup AliasesReached(UNION {AliasesIn(context.fns[f]) : f \in names}, n - 1)

\* The template of the alias calls the alias, directly or through others.
CallsItself(name) == name \in AliasesReached({name}, Cardinality(DOMAIN context.fns))

\* C23, as stated: evaluating a call to an alias whose template calls that
\* same alias, directly or through other aliases, never returns a result;
\* every call to an alias whose reference graph has no cycle returns.
C23_CyclicAliasNeverReturns ==
    IsAliasCall =>
        (result = StackOverflow <=> CallsItself(query.s))

\* C23, amended: a call to an alias that calls itself does not return
\* unless the call to itself is in an argument that is not evaluated: lazy
\* = first($1, lazy($1)) returns when $1 fails or is not empty.
C23_AliasTermination ==
    IsAliasCall =>
        /\ ~CallsItself(query.s) => result # StackOverflow
        /\ query.s \in {"loop", "ping", "pong"} => result = StackOverflow
        /\ query.s = "lazy" =>
              /\ CallsItself("lazy")
              /\ result = StackOverflow
                    <=> eval(query.args[1], context) = Ok({})
              /\ result # StackOverflow =>
                    result = eval(Fn("first", <<query.args[1]>>), context)

\* C23 happens: lazy(x), an alias that calls itself, returns the first of a
\* non-empty x.
C23_Witness ==
    /\ query = Fn("lazy", <<Name("x")>>)
    /\ CallsItself("lazy")
    /\ BoundX # {}
    /\ result = Ok({SetFirst(BoundX)})

\* A cached_set call of the caller is in progress.
InCall(t) == calls[t].frames # <<>>

\* C24: cached_set does not hold the lock of the cache while its producer
\* runs, so a producer that itself asks for cached sets (draft -> public ->
\* publichead, drafthead -> publichead) is never blocked: every call in
\* progress can take its next step.
C24_ProducerRunsUnlocked ==
    \A t \in Callers :
        InCall(t) =>
            /\ LockFree
            /\ ENABLED (Invoke(t) \/ Produce(t) \/ Insert(t))

\* C24 happens: the producer of draft asked for public, whose producer
\* asked for publichead, while the other caller is in a producer too.
C24_Witness ==
    /\ Len(calls[1].frames) = 3
    /\ calls[1].frames[1].name = "draft"
    /\ calls[1].frames[3].pc = "insert"
    /\ InCall(2)
    /\ Top(2).pc = "run"

-----------------------------------------------------------------------------
(* What a failure leaves behind (SpecCache) *)

\* C25: a producer that fails leaves the cache of sets as it was, so the
\* entries its nested calls inserted before the failure stay and nothing is
\* inserted for the name that failed; the caller gets the error; a later
\* request for a name the cache does not hold invokes the producer again.
\* An initialiser of the mutation graph or the alias context that fails
\* leaves its cell uninitialised, and the next request on a cell that is not
\* initialised runs the initialiser again.
C25_FailureIsNotCached ==
    [][/\ \A t \in Callers :
             (calls[t].frames # <<>> /\ calls'[t].ret = DagError)
                => /\ cached_sets' = cached_sets
                   /\ calls'[t].frames = <<>>
       /\ \A t \in Callers, name \in NamedSets :
             (Call(t, name) /\ name \notin DOMAIN cached_sets)
                => /\ calls'[t].frames = <<Frame(name)>>
                   /\ calls'[t].ret = NoResult
       /\ \A c \in Cells, ok \in BOOLEAN :
             (get_or_try_init(c, ok) /\ ~cells[c].init)
                => /\ cells'[c].init = ok
                   /\ cells'[c].failed = ~ok]_vars

\* Caller 2 got the error of a producer, public is not cached while
\* publichead, which public asked for, is; caller 1 runs the producer of
\* public over the cached publichead. The initialiser of the mutation graph
\* failed, the alias context is initialised.
C25_Witness ==
    /\ calls[2].ret = DagError
    /\ calls[2].frames = <<>>
    /\ "publichead" \in DOMAIN cached_sets
    /\ "public" \notin DOMAIN cached_sets
    /\ Len(calls[1].frames) = 1
    /\ Top(1).name = "public"
    /\ Top(1).pc = "run"
    /\ Top(1).got = <<cached_sets["publichead"]>>
    /\ cells["cached_mutation_dag"] = [init |-> FALSE, failed |-> TRUE]
    /\ cells["cached_eval_context"].init

-----------------------------------------------------------------------------
(* predecessors and successors against one another (SpecMut) *)

\* C26: predecessors and successors are converse on the main graph: for all
\* vertices x and y of the main graph, y is in predecessors({x}) exactly
\* when x is in successors({y}).
C26_PredecessorsSuccessorsConverse ==
    LET g == mutation_dag
    IN  \A x \in DagAll, y \in DagAll :
            y \in Predecessors(g, {x}) <=> x \in Successors(g, {y})

\* A commit of the main graph and, apart from it, the commit it replaces,
\* which a reference keeps in the main graph.
C26_Witness ==
    LET g == mutation_dag
    IN  \E x \in DagAll, y \in DagAll :
            /\ x # y
            /\ y \in Predecessors(g, {x})
            /\ x \in Successors(g, {y})
            /\ x \notin Predecessors(g, {y})

-----------------------------------------------------------------------------
(* The aggregated relation (SpecRewrite) *)

\* The rewrite entries in the order infer_mutation_from_reflog merges their
\* edges: <<i, j>> is the j-th entry of the reflog of the i-th branch.
RewritePositions ==
    {p \in (1..Len(BranchOrder)) \X (1..MaxRewrites) :
        /\ BranchOrder[p[1]] \in DOMAIN git_references \cap DOMAIN reflog
        /\ p[2] <= Len(reflog[BranchOrder[p[1]]])}

EntryAt(p) == reflog[BranchOrder[p[1]]][p[2]]

\* The maps analyse_head_rewrite returns, by position.
EdgeMaps ==
    [p \in RewritePositions |-> analyse_head_rewrite(EntryAt(p).old, EntryAt(p).new)]

\* The positions whose map holds the new vertex n.
PositionsOf(maps, n) == {p \in DOMAIN maps : n \in DOMAIN maps[p]}

\* The last of the positions ps.
LastPosition(ps) ==
    CHOOSE p \in ps : \A q \in ps : q[1] < p[1] \/ (q[1] = p[1] /\ q[2] <= p[2])

\* C27: the aggregated relation holds, for each new vertex an edge of some
\* rewrite entry of some branch names, the old vertex of the last such edge
\* merged, and no other key; so every vertex of the mutation graph has at
\* most one parent.
C27_LastEdgeWins ==
    LET r == Replaces
        g == mutation_dag
        maps == EdgeMaps
    IN  /\ DOMAIN r = UNION {DOMAIN maps[p] : p \in DOMAIN maps}
        /\ \A n \in DOMAIN r : r[n] = maps[LastPosition(PositionsOf(maps, n))][n]
        /\ \A v \in MutAll(g) : Cardinality(MutParents(g, {v})) <= 1

\* Rewrite entries of two branches stand for edges of one new vertex to
\* different old vertexes, and the vertex has its one parent in the mutation
\* graph.
C27_Witness ==
    LET maps == EdgeMaps
    IN  \E n \in 1..Len(commits) :
            /\ \E p, q \in PositionsOf(maps, n) :
                  p[1] # q[1] /\ maps[p][n] # maps[q][n]
            /\ Cardinality(MutParents(mutation_dag, {n})) = 1

====
